---- MODULE Spec2Model ----
(***************************************************************************)
(* Call session orchestration of the voice-AI phone answering system.      *)
(*                                                                         *)
(* Spec      : the webhook server (src/webhook_server.py): the registry    *)
(*             active_calls, the answer guard answered_calls, the webhook  *)
(*             handler _handle_telephony_session and the threads it starts *)
(*             (_run_answer_call -> answer_call_automatically,             *)
(*             _handle_voicemail_and_answer), the /call route and the      *)
(*             /call/<id>/hangup route.                                    *)
(*                                                                         *)
(* SpecAudio : the audio pipeline coordinators: AudioStreamHandler          *)
(*             (src/audio_stream_handler.py), one asyncio coroutine per     *)
(*             WebSocket connection, and AudioProcessor                     *)
(*             (src/sip_rtp_integration.py), the media callback and the     *)
(*             worker thread it starts.                                     *)
(* FairSpecAudio : SpecAudio with every started pipeline stage completing.  *)
(* SpecRoute : the POST branch of the /webhook route (ringcentral_webhook)   *)
(*             with its signature check, in front of the webhook handler.   *)
(* SpecAuth  : provider authentication: RingCentralAuth                      *)
(*             (src/ringcentral_auth.py), whose make_request every thread   *)
(*             of the webhook server calls, and the authenticate coroutine  *)
(*             of RingCentralClient (src/ringcentral_client.py).            *)
(* SpecSip   : SIPServer (src/sip_server.py): the receive loop, one handler  *)
(*             thread per datagram, one RTP thread per answered call.       *)
(* SpecEngine: VoiceAIEngine (src/voice_ai_engine.py), entered through      *)
(*             handle_incoming_call, next to the webhook handler that       *)
(*             receives the telephony events of the same calls.             *)
(*                                                                         *)
(* A webhook request is handled to completion as one step (requests are    *)
(* taken one at a time); the threads it starts run one lock section or one *)
(* provider request per step, interleaved with every other step.           *)
(* A coroutine runs from one await to the next as one step.                *)
(***************************************************************************)
EXTENDS Integers, Sequences, FiniteSets, TLC

VARIABLES
    active_calls,     \* webhook_server.active_calls: callId -> session or NoCall
    answered_calls,   \* webhook_server.answered_calls: set of callIds
    thr,              \* the answer threads, one slot per thread ever started
    ended,            \* callIds for which an inbound terminal event was processed
    callbacks,        \* callId -> _handle_voicemail_and_answer threads started,
                      \* each of which dials the caller back once
    lastTerminal,     \* the callId whose inbound Disconnected/Gone/Cancelled event
                      \* the latest step handled, "none" after any other step
    active_streams,   \* AudioStreamHandler.active_streams: call_id -> connection
                      \* whose stream_session is registered, 0 when absent
    stream,           \* per WebSocket connection: its coroutine and stream_session
    incoming_buffer,  \* AudioProcessor.incoming_buffer, length in bytes
    processing,       \* AudioProcessor.processing
    worker,           \* stage of the AudioProcessor worker thread, "none" if no thread
    lastCycle,        \* how the pipeline cycle ended that the latest step finished,
                      \* "none" when the latest step finished no cycle
    engine,           \* VoiceAIEngine: per call_id the session in its active_calls
                      \* and the coroutine handling the call
    auth,             \* the RingCentralAuth instance behind make_request and the
                      \* POST /restapi/oauth/token requests it has sent
    caller,           \* the threads inside RingCentralAuth.make_request
    client,           \* the latest RingCentralClient.authenticate call
    calls,            \* SIPServer.calls (sip_server.py): Call-ID -> state and RTP port
    registered_users, \* SIPServer.registered_users: the SIP URIs registered
    invite,           \* per Call-ID the SIPServer.handle_invite thread
    rtp,              \* per Call-ID the SIPServer.handle_rtp_stream thread
    sipOut,           \* per Call-ID the responses SIPServer sent since the INVITE
    rc_run,           \* RingCentralSIPServer.run: "init" before its first REGISTER
    registered,       \* RingCentralSIPServer.registered
    ok_received,      \* whether a 200 OK naming REGISTER has been received
    cseq,             \* RingCentralSIPServer.cseq
    registers,        \* the REGISTER requests sent, in order: CSeq and Authorization
    rc_calls,         \* RingCentralSIPServer.active_calls: Call-ID -> state, RTP port
    rc_thr,           \* per Call-ID the accept_call and handle_rtp_stream threads
    rc_out,           \* per Call-ID what RingCentralSIPServer did since the INVITE:
                      \* responses sent, and whether a BYE was handled
    ai_engine,        \* SIPServer.ai_engine.conversation_history: the messages of
                      \* the one VoiceAIEngine of the server, each with its role
                      \* and the call whose audio it answers
    conversation_history,  \* llm_handler.conversation_history: the exchanges
                      \* kept by the one LLMHandler of the process, each with the
                      \* call it belongs to
    dialog,           \* the latest batch of audio that went through speech
                      \* recognition: the caller of the pipeline, the call, how
                      \* recognition ended, the text, whether the language model
                      \* was asked, the messages it was given and the reply that
                      \* came out
    call_lock,        \* webhook_server.call_lock: the handler that holds it, 0 free
    answer_lock,      \* webhook_server.answer_lock: the handler that holds it, 0 free
    handler,          \* per handler thread of the webhook server, followed lock by
                      \* lock: the function it runs, its call, the instruction it
                      \* is at (0 when it runs nothing) and whether it is inside
                      \* the with block of that instruction
    http              \* what the /webhook route did with the latest request: the
                      \* response status (0 before any request), whether the body
                      \* went through json.loads, whether the event was sent on to
                      \* the JavaScript server, and the response body ("json" for
                      \* a jsonify document, else the plain text sent)

webhookVars == <<active_calls, answered_calls, thr, ended, callbacks>>

audioVars == <<active_streams, stream, incoming_buffer, processing, worker>>

authVars == <<auth, caller, client>>

sipVars == <<calls, registered_users, invite, rtp, sipOut>>

rcVars == <<rc_run, registered, ok_received, cseq, registers, rc_calls, rc_thr, rc_out>>

dialogVars == <<ai_engine, conversation_history, dialog>>

lockVars == <<call_lock, answer_lock, handler>>

vars == <<webhookVars, lastTerminal, audioVars, lastCycle, engine, http, authVars, sipVars,
          rcVars, dialogVars, lockVars>>

(***************************************************************************)
(* Bounds                                                                  *)
(***************************************************************************)
\* answer threads ever started (webhook Setup events and /call requests)
MaxThreads == 2
\* voicemail call-back threads ever started per call
MaxVoicemail == 2
\* WebSocket connections ever opened
MaxConns == 2
\* bytes a buffer may hold before its producer stops sending
MaxBuffer == 48000
\* threads inside make_request at a time
MaxCallers == 2
\* access tokens told apart
MaxTokens == 2
\* refresh_token grants requested while one token is within the margin
MaxRefreshes == 3
\* receive timeouts in a row that are told apart in SIPServer's RTP loop
MaxSilent == 2
\* RingCentralSIPServer.cseq stays below this
MaxCseq == 4
\* turns of conversation that are followed per history
MaxTurns == 2
\* handler threads of the webhook server that are followed lock by lock
MaxWorkers == 2

Threads == 1..MaxThreads

\* callId = f"{telephony_session_id}_{party_id}": the inbound party of a session
CallIds == {"s1_p1"}

(***************************************************************************)
(* Party status codes and phone numbers carried by the events              *)
(***************************************************************************)
Codes == {"Setup", "Proceeding", "Alerting", "Ringing", "Answered", "Connected",
          "Disconnected", "Gone", "Cancelled"}

\* the provider reports a party with the direction of that party
DirectionOf(c) == "Inbound"

\* the 'to' numbers an event may carry: the monitored line in E.164 form, the
\* same digits without the plus sign, and another line
Numbers == {"+15139283626", "15139283626", "+15550100"}

\* target_number = "+15139283626"; target_number in incoming_number
MatchesAnswerTarget(number) == number = "+15139283626"

\* target_number = "15139283626"; target_number in incoming_number
MatchesVoicemailTarget(number) == number \in {"+15139283626", "15139283626"}

NoCall == [obj |-> 0, status |-> "-", updated |-> FALSE]

\* the events of a party: reason 'Voicemail' with missedCall comes with a terminal
\* status only
Events == {ev \in [code : Codes, number : Numbers, hasDevice : BOOLEAN, voicemail : BOOLEAN] :
              ev.voicemail => ev.code \in {"Disconnected", "Gone", "Cancelled"}}

(***************************************************************************)
(* Answer threads                                                          *)
(*   pc      where the thread stands: "start" (_run_answer_call entered),  *)
(*           "guard" (about to take answer_lock), "query" (party status    *)
(*           request), "post" (answer request), "done" (returned)          *)
(*   source  call_data['source']: "webhook" for a thread started by        *)
(*           _handle_telephony_session, "call" for one started by POST     *)
(*           /call                                                         *)
(*   status  call_data['status']['code'], read at "start" only             *)
(*   device  whether device_id is truthy                                   *)
(*   marked  this invocation added its callId to answered_calls            *)
(*   issued  this invocation sent POST .../parties/{partyId}/answer        *)
(*   result  "none" while running, then "true" / "false" (the value        *)
(*           answer_call_automatically returned) or "skipped"              *)
(*           (_run_answer_call returned without calling it)                *)
(***************************************************************************)
NewThread(c, source, pc, status, device) ==
    [pc |-> pc, call |-> c, source |-> source, status |-> status, device |-> device,
     marked |-> FALSE, issued |-> FALSE, result |-> "none"]

IdleThread == NewThread("none", "-", "idle", "-", FALSE)

Running(t) == thr[t].pc \in {"start", "guard", "query", "post"}

\* the lowest unused thread slot, 0 when every slot is used
FreeSlot ==
    IF \E t \in Threads : thr[t].pc = "idle"
    THEN CHOOSE t \in Threads : thr[t].pc = "idle" /\ \A u \in Threads : u < t => thr[u].pc # "idle"
    ELSE 0

Registered(c) == active_calls[c].obj # 0

\* the threads started by webhook events of callId c that have sent the answer
\* request, and those whose request the provider accepted
AnswerRequests(c) ==
    {t \in Threads : thr[t].call = c /\ thr[t].source = "webhook" /\ thr[t].issued}

AcceptedAnswers(c) == {t \in AnswerRequests(c) : thr[t].result = "true"}

Finish(t, result) ==
    [thr EXCEPT ![t].pc = "done", ![t].status = "-", ![t].result = result]

(***************************************************************************)
(* _handle_telephony_session, one party per event                          *)
(***************************************************************************)
InitialCodes == {"Proceeding", "Setup", "Alerting"}
AnsweredCodes == {"Answered", "Connected"}
TerminalCodes == {"Disconnected", "Gone", "Cancelled"}

\* lines 538-577: store call_data under its callId, start the answer thread
\* (the engine thread runs the mock engine, which keeps no state)
RegisterAndLaunch(c) ==
    /\ FreeSlot # 0
    /\ active_calls' = [active_calls EXCEPT ![c] =
                            [obj |-> FreeSlot, status |-> "Setup", updated |-> FALSE]]
    /\ thr' = [thr EXCEPT ![FreeSlot] = NewThread(c, "webhook", "start", "Setup", TRUE)]
    /\ UNCHANGED <<answered_calls, ended, callbacks>>

\* TerminalCleanup without lines 634-637 (the answer guard entry is not released)
TerminalCleanupKeepsMarker(c, number, hasDevice, voicemail) ==
    /\ IF voicemail /\ MatchesVoicemailTarget(number) /\ hasDevice
       THEN /\ callbacks[c] < MaxVoicemail
            /\ callbacks' = [callbacks EXCEPT ![c] = @ + 1]
       ELSE UNCHANGED callbacks
    /\ active_calls' = [active_calls EXCEPT ![c] = NoCall]
    /\ ended' = ended \cup {c}
    /\ UNCHANGED <<thr, answered_calls>>

\* lines 587-637: optional voicemail call-back thread, then both tables released
TerminalCleanup(c, number, hasDevice, voicemail) ==
    /\ IF voicemail /\ MatchesVoicemailTarget(number) /\ hasDevice
       THEN /\ callbacks[c] < MaxVoicemail
            /\ callbacks' = [callbacks EXCEPT ![c] = @ + 1]
       ELSE UNCHANGED callbacks
    /\ active_calls' = [active_calls EXCEPT ![c] = NoCall]
    /\ answered_calls' = answered_calls \ {c}
    /\ ended' = ended \cup {c}
    /\ UNCHANGED thr

\* lines 644-655: status change of a registered call; call_data is the dict the
\* answer thread of that session holds, so the thread sees the new status
StatusUpdate(c, code) ==
    /\ IF Registered(c)
       THEN /\ active_calls' = [active_calls EXCEPT ![c] =
                    IF code \in {"Disconnected", "Gone"}
                    THEN NoCall
                    ELSE [obj |-> @.obj, status |-> code, updated |-> TRUE]]
            /\ thr' = [t \in Threads |->
                    IF t = active_calls[c].obj /\ thr[t].pc = "start"
                    THEN [thr[t] EXCEPT !.status = code]
                    ELSE thr[t]]
       ELSE UNCHANGED <<active_calls, thr>>
    /\ UNCHANGED <<answered_calls, ended, callbacks>>

HandleTelephonySession(c, direction, code, number, hasDevice, voicemail) ==
    IF direction = "Inbound" /\ code = "Setup" /\ MatchesAnswerTarget(number)
    THEN IF ~hasDevice
         THEN UNCHANGED webhookVars            \* 400 "Device ID not found"
         ELSE RegisterAndLaunch(c)
    ELSE IF direction = "Inbound" /\ code \in InitialCodes
    THEN UNCHANGED webhookVars
    ELSE IF direction = "Inbound" /\ code \in AnsweredCodes
    THEN UNCHANGED webhookVars
    ELSE IF direction = "Inbound" /\ code \in TerminalCodes
    THEN TerminalCleanup(c, number, hasDevice, voicemail)
    ELSE StatusUpdate(c, code)

\* DELETE /call/<call_id>/hangup
HangupCall(c, ok) ==
    /\ Registered(c)
    /\ IF ok
       THEN active_calls' = [active_calls EXCEPT ![c] = NoCall]
       ELSE UNCHANGED active_calls             \* 500 "Hangup failed"
    /\ UNCHANGED <<answered_calls, thr, ended, callbacks>>

\* POST /call -> process_call -> answer_call_automatically (no status pre-check;
\* deviceId may be missing from the posted JSON)
HandleIncomingCall(c, hasDevice) ==
    /\ FreeSlot # 0
    /\ thr' = [thr EXCEPT ![FreeSlot] = NewThread(c, "call", "guard", "-", hasDevice)]
    /\ UNCHANGED <<active_calls, answered_calls, ended, callbacks>>

(***************************************************************************)
(* _run_answer_call and answer_call_automatically, step by step            *)
(***************************************************************************)
\* _run_answer_call lines 742-764: a call already ended in call_data is skipped
RunAnswerCall(t) ==
    /\ thr[t].pc = "start"
    /\ thr' = IF thr[t].status \in TerminalCodes
              THEN Finish(t, "skipped")
              ELSE [thr EXCEPT ![t].pc = "guard", ![t].status = "-"]
    /\ UNCHANGED <<active_calls, answered_calls, ended, callbacks>>

\* lines 1350-1356, under answer_lock
CheckAndMark(t) ==
    /\ thr[t].pc = "guard"
    /\ IF thr[t].call \in answered_calls
       THEN /\ thr' = Finish(t, "false")
            /\ UNCHANGED answered_calls
       ELSE /\ answered_calls' = answered_calls \cup {thr[t].call}
            /\ thr' = [thr EXCEPT ![t].pc = "query", ![t].marked = TRUE]
    /\ UNCHANGED <<active_calls, ended, callbacks>>

ValidStatuses == {"Setup", "Proceeding", "Alerting"}

\* what GET .../telephony/sessions/{id} can give: an exception, a session without
\* the party, or the party with some status code
QueryOutcomes == {"exception", "not_found"} \cup Codes

\* line 1380
InvalidStatuses == {"Disconnected", "Gone", "Cancelled", "Answered", "Connected"}

\* the status check with the already-answered statuses taken for answerable
QueryPartyStatusAnsweredAllowed(t, outcome) ==
    /\ thr[t].pc = "query"
    /\ thr' = IF outcome \in TerminalCodes
                 \/ (outcome # "exception" /\ outcome \notin InvalidStatuses
                       /\ outcome \notin ValidStatuses)
              THEN Finish(t, "false")
              ELSE IF ~thr[t].device
              THEN Finish(t, "false")
              ELSE [thr EXCEPT ![t].pc = "post"]
    /\ UNCHANGED <<active_calls, answered_calls, ended, callbacks>>

\* lines 1358-1403: returns FALSE leave the marker in place
QueryPartyStatus(t, outcome) ==
    /\ thr[t].pc = "query"
    /\ thr' = IF outcome \in InvalidStatuses
                 \/ (outcome # "exception" /\ outcome \notin ValidStatuses)
              THEN Finish(t, "false")
              ELSE IF ~thr[t].device
              THEN Finish(t, "false")
              ELSE [thr EXCEPT ![t].pc = "post"]
    /\ UNCHANGED <<active_calls, answered_calls, ended, callbacks>>

\* make_request either fails before sending (no token), or sends the request
\* and the provider accepts or rejects it
PostOutcomes == {"ok", "http_error", "auth_fail"}

\* lines 1426-1445: the except clause removes the marker
PostAnswer(t, outcome) ==
    /\ thr[t].pc = "post"
    /\ IF outcome = "ok"
       THEN /\ thr' = [Finish(t, "true") EXCEPT ![t].issued = TRUE]
            /\ UNCHANGED answered_calls
       ELSE /\ thr' = [Finish(t, "false") EXCEPT ![t].issued = (outcome = "http_error")]
            /\ answered_calls' = answered_calls \ {thr[t].call}
    /\ UNCHANGED <<active_calls, ended, callbacks>>

(***************************************************************************)
(* The webhook server                                                      *)
(***************************************************************************)
InitWebhook ==
    /\ active_calls = [c \in CallIds |-> NoCall]
    /\ answered_calls = {}
    /\ thr = [t \in Threads |-> IdleThread]
    /\ ended = {}
    /\ callbacks = [c \in CallIds |-> 0]
    /\ lastTerminal = "none"

\* POST /webhook with a telephony session event of one party
WebhookEvent(c, ev) ==
    /\ HandleTelephonySession(c, DirectionOf(c), ev.code, ev.number, ev.hasDevice, ev.voicemail)
    /\ lastTerminal' = IF DirectionOf(c) = "Inbound" /\ ev.code \in TerminalCodes
                       THEN c ELSE "none"

\* a step that handles no terminal event
NoTerminal == lastTerminal' = "none"

(***************************************************************************)
(* ringcentral_webhook, POST branch, and _verify_webhook_signature         *)
(*   A raw body is empty, bytes that are not JSON, a JSON event that is not *)
(*   a telephony session event, or a telephony session event of one party.  *)
(*   base64(HMAC-SHA1(key, message)) is the pair of its key and message:    *)
(*   two signatures are equal exactly when key and message are.             *)
(***************************************************************************)
NoEvent == [code |-> "-", number |-> "-", hasDevice |-> FALSE, voicemail |-> FALSE]

RawBodies ==
    {[kind |-> k, call |-> "none", ev |-> NoEvent] : k \in {"empty", "garbage", "json"}}
        \cup {[kind |-> "telephony", call |-> c, ev |-> ev] : c \in CallIds, ev \in Events}

\* Config.RINGCENTRAL['webhook_secret'], set unless the environment blanks it
webhook_secret == "configured"

\* the configured secret and a key the sender made up
Secrets == {webhook_secret, "guessed"}

HmacSha1Base64(key, message) == <<key, message>>

\* request.headers.get('X-RC-Signature') without that header
NoSignature == <<>>

\* a body signed earlier, whose signature a sender can attach to another body
ReplayedBody == [kind |-> "json", call |-> "none", ev |-> NoEvent]

\* the X-RC-Signature values a request with this body is sent with
SignatureHeaders(body) ==
    {NoSignature} \cup {HmacSha1Base64(k, b) : k \in Secrets, b \in {body, ReplayedBody}}

\* the signature check comparing the key only
VerifyWebhookSignatureKeyOnly(signature, body) ==
    IF signature = NoSignature
    THEN TRUE
    ELSE IF webhook_secret = ""
    THEN TRUE
    ELSE signature[1] = webhook_secret

\* lines 434-485
VerifyWebhookSignature(signature, body) ==
    IF signature = NoSignature
    THEN TRUE
    ELSE IF webhook_secret = ""
    THEN TRUE
    ELSE signature = HmacSha1Base64(webhook_secret, body)

\* the status _handle_telephony_session returns: 400 at lines 533-536, else 200
TelephonyStatus(c, ev) ==
    IF DirectionOf(c) = "Inbound" /\ ev.code = "Setup" /\ MatchesAnswerTarget(ev.number)
         /\ ~ev.hasDevice
    THEN 400
    ELSE 200

Reply(status, parsed, forwarded, body) ==
    [status |-> status, parsed |-> parsed, forwarded |-> forwarded, body |-> body]

\* a jsonify(...) response
Response(status, parsed, forwarded) == Reply(status, parsed, forwarded, "json")

\* lines 371-427
WebhookPost(body, signature) ==
    IF body.kind = "empty"
    THEN /\ http' = Response(200, FALSE, FALSE)
         /\ UNCHANGED webhookVars
         /\ NoTerminal
    ELSE IF ~VerifyWebhookSignature(signature, body)
    THEN /\ http' = Response(401, FALSE, FALSE)
         /\ UNCHANGED webhookVars
         /\ NoTerminal
    ELSE IF body.kind = "garbage"
    THEN /\ http' = Response(400, TRUE, FALSE)
         /\ UNCHANGED webhookVars
         /\ NoTerminal
    ELSE IF body.kind = "telephony"
    THEN /\ WebhookEvent(body.call, body.ev)
         /\ http' = Response(TelephonyStatus(body.call, body.ev), TRUE, TRUE)
    ELSE /\ http' = Response(200, TRUE, TRUE)
         /\ UNCHANGED webhookVars
         /\ NoTerminal

\* values of the hub.challenge query parameter; "" when it is absent or empty
Tokens == {"abc123", "test123"}

\* lines 308-361: the external-app branch starts a thread that synthesizes a
\* greeting into a file and touches none of the call tables
WebhookGet(challenge, hasCallParams) ==
    /\ http' = IF challenge # ""
               THEN Reply(200, FALSE, FALSE, challenge)
               ELSE IF hasCallParams
               THEN Response(200, FALSE, FALSE)
               ELSE Response(400, FALSE, FALSE)
    /\ UNCHANGED webhookVars
    /\ NoTerminal

\* lines 292-432 for the methods the route accepts; the POST branch never reads
\* request.args
RingcentralWebhook(method, challenge, hasCallParams, body, signature) ==
    IF method = "GET"
    THEN WebhookGet(challenge, hasCallParams)
    ELSE WebhookPost(body, signature)

InitRoute == http = Response(0, FALSE, FALSE)

(***************************************************************************)
(* AudioStreamHandler: handle_audio_stream and _process_audio_chunk        *)
(*   pc            "idle" (not connected), "recv" (in the message loop),   *)
(*                 "transcribe" / "generate" / "synthesize" / "send" (the  *)
(*                 coroutine awaits that stage inside _process_audio_chunk)*)
(*                 or "closed"                                             *)
(*   call          call_id taken from the connection path                  *)
(*   audio_buffer  len(stream_session['audio_buffer'])                     *)
(*   is_processing stream_session['is_processing']                         *)
(*   target        the connection whose stream_session the awaited cycle   *)
(*                 works on (the local variable session), 0 outside a cycle*)
(***************************************************************************)
Conns == 1..MaxConns

\* Config.SPEECH["sample_rate"]
sample_rate == 16000

\* len(audio_data) < 1000: too little data
MinAudioBytes == 1000

\* sizes in bytes of the binary WebSocket messages
MessageSizes == {16000, 32000}

StreamStages == {"transcribe", "generate", "synthesize", "send"}

NoStream == [pc |-> "idle", call |-> "none", audio_buffer |-> 0,
             is_processing |-> FALSE, target |-> 0]

\* lines 44-58: a new stream_session is stored under the call_id of the path
Connect(k, c) ==
    /\ stream[k].pc = "idle"
    /\ \A j \in Conns : j < k => stream[j].pc # "idle"
    /\ stream' = [stream EXCEPT ![k] = [NoStream EXCEPT !.pc = "recv", !.call = c]]
    /\ active_streams' = [active_streams EXCEPT ![c] = k]
    /\ lastCycle' = "none"
    /\ UNCHANGED <<incoming_buffer, processing, worker>>

\* _process_audio_chunk lines 102-117, entered by the coroutine of connection k
\* whose buffer holds len bytes after the append: up to the first await
ProcessAudioChunk(k, len) ==
    LET s == active_streams[stream[k].call]
        appended == [stream EXCEPT ![k].audio_buffer = len]
    IN  IF s = 0 \/ appended[s].is_processing
        THEN /\ stream' = appended
             /\ lastCycle' = "none"
        ELSE IF appended[s].audio_buffer < MinAudioBytes
        THEN /\ stream' = [appended EXCEPT ![s].audio_buffer = 0]
             /\ lastCycle' = "early_return"
        ELSE /\ stream' = [appended EXCEPT ![s].audio_buffer = 0,
                                           ![s].is_processing = TRUE,
                                           ![k].pc = "transcribe",
                                           ![k].target = s]
             /\ lastCycle' = "none"

\* lines 61-69: a binary message is appended to the session of this connection
ReceiveAudio(k, n) ==
    /\ stream[k].pc = "recv"
    /\ stream[k].audio_buffer + n <= MaxBuffer
    /\ IF stream[k].audio_buffer + n >= sample_rate * 2
       THEN ProcessAudioChunk(k, stream[k].audio_buffer + n)
       ELSE /\ stream' = [stream EXCEPT ![k].audio_buffer = @ + n]
            /\ lastCycle' = "none"
    /\ UNCHANGED <<active_streams, incoming_buffer, processing, worker>>

\* lines 119-160: what a cycle that ended with outcome has sent to the caller:
\* the synthesized reply at the end of the try block; the except clause only
\* writes to the log
CycleSends(outcome) == IF outcome = "success" THEN "reply" ELSE "nothing"

\* the finally clause (line 160) without the reset of is_processing
EndCycleKeepsFlag(k, outcome) ==
    /\ stream' = [stream EXCEPT ![k].pc = "recv", ![k].target = 0]
    /\ lastCycle' = outcome

\* lines 157-160: except logs, finally resets the flag of the local session
EndCycle(k, outcome) ==
    /\ stream' = [stream EXCEPT ![stream[k].target].is_processing = FALSE,
                                ![k].pc = "recv", ![k].target = 0]
    /\ lastCycle' = outcome

\* line 120: async_transcribe returns text, returns nothing, or raises
Transcribe(k, outcome) ==
    /\ stream[k].pc = "transcribe"
    /\ IF outcome = "text"
       THEN /\ stream' = [stream EXCEPT ![k].pc = "generate"]
            /\ lastCycle' = "none"
       ELSE EndCycle(k, outcome)
    /\ UNCHANGED <<active_streams, incoming_buffer, processing, worker>>

NextStage(stage) ==
    IF stage = "generate" THEN "synthesize"
    ELSE IF stage = "synthesize" THEN "send"
    ELSE "recv"

\* lines 133-155: generate_ai_response, async_synthesize, websocket.send.
\* generate_ai_response(user_input, context) is called with the keyword
\* conversation_history, which it does not take: the call raises TypeError
LaterStage(k, ok) ==
    /\ stream[k].pc \in {"generate", "synthesize", "send"}
    /\ stream[k].pc = "generate" => ~ok
    /\ IF ~ok
       THEN EndCycle(k, "exception")
       ELSE IF stream[k].pc = "send"
       THEN EndCycle(k, "success")
       ELSE /\ stream' = [stream EXCEPT ![k].pc = NextStage(@)]
            /\ lastCycle' = "none"
    /\ UNCHANGED <<active_streams, incoming_buffer, processing, worker>>

\* lines 78-86: the message loop ends; the call_id is removed whichever
\* connection registered it. Nothing reads the buffer of a closed connection
\* again (its session cannot be registered any more), so it is dropped here.
Disconnect(k) ==
    /\ stream[k].pc = "recv"
    /\ stream' = [stream EXCEPT ![k].pc = "closed", ![k].audio_buffer = 0]
    /\ active_streams' = [active_streams EXCEPT ![stream[k].call] = 0]
    /\ lastCycle' = "none"
    /\ UNCHANGED <<incoming_buffer, processing, worker>>

TranscribeOutcomes == {"text", "no_text", "exception"}

StreamStage(k) ==
    \/ \E outcome \in TranscribeOutcomes : Transcribe(k, outcome)
    \/ \E ok \in BOOLEAN : LaterStage(k, ok)

\* the cycles in progress for call_id c
CyclesInProgress(c) == {k \in Conns : stream[k].call = c /\ stream[k].pc \in StreamStages}

(***************************************************************************)
(* AudioProcessor: onFrameReceived and the worker thread                   *)
(***************************************************************************)
\* self.chunk_size = 16000
chunk_size == 16000

\* bytes delivered per callback: the media port delivers frames of one fixed
\* size that divides the threshold (here 25 frames of 20 ms at a time)
FrameSizes == {16000}

\* lines 73-90, on the media callback thread
OnFrameReceived(n) ==
    /\ incoming_buffer + n <= MaxBuffer
    /\ IF incoming_buffer + n >= chunk_size * 2 /\ ~processing
       THEN /\ processing' = TRUE
            /\ incoming_buffer' = incoming_buffer + n - chunk_size * 2
            /\ worker' = "transcribe"
       ELSE /\ incoming_buffer' = incoming_buffer + n
            /\ UNCHANGED <<processing, worker>>
    /\ lastCycle' = "none"
    /\ UNCHANGED <<active_streams, stream>>

\* lines 125-128: except logs, finally resets processing
WorkerEnd(outcome) ==
    /\ processing' = FALSE
    /\ worker' = "none"
    /\ lastCycle' = outcome

\* lines 97-123 on the worker thread: transcribe_audio, get_response,
\* synthesize_speech, each returning or raising
WorkerStage ==
    /\ worker # "none"
    /\ \E outcome \in {"ok", "no_text", "exception"} :
          /\ outcome = "no_text" => worker = "transcribe"
          /\ IF outcome = "ok" /\ worker # "synthesize"
             THEN /\ worker' = NextStage(IF worker = "transcribe" THEN "generate" ELSE worker)
                  /\ lastCycle' = "none"
                  /\ UNCHANGED processing
             ELSE WorkerEnd(IF outcome = "ok" THEN "success" ELSE outcome)
    /\ UNCHANGED <<active_streams, stream, incoming_buffer>>

(***************************************************************************)
(* The audio coordinators                                                  *)
(***************************************************************************)
InitAudio ==
    /\ active_streams = [c \in CallIds |-> 0]
    /\ stream = [k \in Conns |-> NoStream]
    /\ incoming_buffer = 0
    /\ processing = FALSE
    /\ worker = "none"
    /\ lastCycle = "none"

(***************************************************************************)
(* VoiceAIEngine: handle_incoming_call, _answer_call, _conversation_loop   *)
(*   state     session.state, "none" when the call_id is not in the        *)
(*             engine's active_calls                                       *)
(*   pc        "idle" (no coroutine), "synthesize" (_answer_call awaits    *)
(*             the welcome audio), "loop" (_conversation_loop),            *)
(*             "abandoned" (the event loop that held the task of           *)
(*             _conversation_loop has been closed)                         *)
(*   afterEnd  the terminal webhook event of the call had been processed   *)
(*             before handle_incoming_call was entered                     *)
(***************************************************************************)
NoSession == [state |-> "none", pc |-> "idle", afterEnd |-> FALSE]

EngineRegistered(c) == engine[c].state # "none"

\* Config.PERFORMANCE["max_concurrent_calls"], default of MAX_CONCURRENT_CALLS
max_concurrent_calls == 5

\* lines 93-117 and 135-146: the session is stored (RINGING), _answer_call marks
\* it ANSWERED and awaits the welcome audio; calls of one call_id are handed
\* to the engine one after the other
EngineHandleIncomingCall(c) ==
    /\ engine[c].pc = "idle"
    /\ Cardinality({d \in CallIds : EngineRegistered(d)}) < max_concurrent_calls
    /\ engine' = [engine EXCEPT ![c] =
                     [state |-> "answered", pc |-> "synthesize", afterEnd |-> c \in ended]]

\* _end_call lines 296-321: state ENDED, record saved, session popped
EndCall(c) == engine' = [engine EXCEPT ![c] = NoSession]

\* lines 146-162 and 121-131: the welcome audio is returned to the caller of
\* handle_incoming_call and the conversation loop is scheduled; an exception
\* ends the call
AnswerCall(c, ok) ==
    /\ engine[c].pc = "synthesize"
    /\ IF ok
       THEN engine' = [engine EXCEPT ![c].pc = "loop"]
       ELSE EndCall(c)

\* lines 171-179: the loop marks the session LISTENING and waits for input
ConversationListen(c) ==
    /\ engine[c].pc = "loop"
    /\ engine[c].state # "listening"
    /\ engine' = [engine EXCEPT ![c].state = "listening"]

\* lines 173-175 and 200-201: call_timeout seconds without activity
ConversationTimeout(c) ==
    /\ engine[c].pc = "loop"
    /\ EndCall(c)

\* webhook_server._run_engine_for_call, lines 729-731: run_until_complete
\* returns once handle_incoming_call has returned, after the task of
\* _conversation_loop ran up to its first await (the sleep of
\* _listen_for_input); loop.close() drops the timer that would resume it
LoopClosed(c) ==
    /\ engine[c].pc = "loop"
    /\ engine[c].state = "listening"
    /\ engine' = [engine EXCEPT ![c].pc = "abandoned"]

\* the garbage collector finalises the task of a closed loop: the coroutine
\* is closed, its finally clause (lines 200-201) runs _end_call.  The program
\* does not decide whether or when this happens
TaskFinalized(c) ==
    /\ engine[c].pc = "abandoned"
    /\ EndCall(c)

\* the step in which the welcome audio of call c is handed over
GreetingReturned(c) == engine[c].pc = "synthesize" /\ engine'[c].pc = "loop"

InitEngine == engine = [c \in CallIds |-> NoSession]

(***************************************************************************)
(* RingCentralAuth (ringcentral_auth.py): make_request and authenticate     *)
(*   auth.is_authenticated, auth.token (0 = None, else the number of the    *)
(*   access token held), auth.expiring (time.time() > token_expires_at -    *)
(*   300), auth.loaded (the module is imported), auth.env_refresh           *)
(*   (RINGCENTRAL_REFRESH_TOKEN is set in the                               *)
(*   environment), auth.refreshes (refresh_token grants requested since the *)
(*   token last came within the margin)                                     *)
(*   caller[k].pc   "idle", "jwt" (_try_jwt_auth inside authenticate),      *)
(*                  "fallback" (_try_refresh_token inside authenticate),    *)
(*                  "refresh" (_try_refresh_token at line 238), "send"      *)
(*   caller[k].site 1: authenticate called at line 232, 2: at line 239      *)
(*   caller[k].jwt / .fallback  "none", "ok", "fail": the methods the       *)
(*                  latest authenticate call of this thread tried           *)
(*   caller[k].result  what that authenticate call returned                 *)
(*   caller[k].raised  make_request raised                                  *)
(***************************************************************************)
Callers == 1..MaxCallers

\* an exchange that is not attempted (no or expired JWT), accepted, or rejected
JwtOutcomes == {"invalid", "ok", "rejected"}

RefreshOutcomes == {"ok", "rejected"}

NoCaller == [pc |-> "idle", site |-> 0, jwt |-> "none", fallback |-> "none",
             result |-> "none", raised |-> FALSE]

\* lines 110-119 and 179-190: a 200 answer installs a new token whose
\* expires_in is beyond the five minute margin
TokenGranted == [auth EXCEPT !.is_authenticated = TRUE,
                             !.token = (@ % MaxTokens) + 1,
                             !.expiring = FALSE]

\* load_dotenv(), line 16: the environment the process runs with
LoadEnvironment(hasRefreshToken) ==
    /\ ~auth.loaded
    /\ auth' = [auth EXCEPT !.loaded = TRUE, !.env_refresh = hasRefreshToken]
    /\ UNCHANGED <<caller, client>>

\* lines 229-240, up to the first provider request
MakeRequest(k) ==
    /\ auth.loaded
    /\ caller[k].pc = "idle"
    /\ caller' = [caller EXCEPT ![k] =
            IF ~auth.is_authenticated
            THEN [NoCaller EXCEPT !.pc = "jwt", !.site = 1]
            ELSE IF auth.expiring
            THEN [NoCaller EXCEPT !.pc = "refresh"]
            ELSE [NoCaller EXCEPT !.pc = "send"]]
    /\ UNCHANGED <<auth, client>>

\* authenticate, line 56: _try_jwt_auth (lines 74-127)
TryJwtAuth(k, outcome) ==
    /\ caller[k].pc = "jwt"
    /\ IF outcome = "ok"
       THEN /\ auth' = TokenGranted
            /\ caller' = [caller EXCEPT ![k].pc = "send", ![k].jwt = "ok",
                                         ![k].result = "true"]
       ELSE /\ caller' = [caller EXCEPT ![k].pc = "fallback", ![k].jwt = "fail"]
            /\ UNCHANGED auth
    /\ UNCHANGED client

\* _try_refresh_token (lines 160-197), called at line 238 or from authenticate
\* (line 62); without RINGCENTRAL_REFRESH_TOKEN it returns False at once
TryRefreshToken(k, outcome) ==
    /\ caller[k].pc \in {"refresh", "fallback"}
    /\ auth.env_refresh => auth.refreshes < MaxRefreshes
    /\ LET sent == auth.env_refresh
           ok == sent /\ outcome = "ok"
           counted == [auth EXCEPT !.refreshes = IF sent THEN @ + 1 ELSE @]
       IN  /\ auth' = IF ok
                      THEN [TokenGranted EXCEPT !.refreshes = counted.refreshes]
                      ELSE counted
           /\ caller' = [caller EXCEPT ![k] =
                   IF caller[k].pc = "refresh"
                   THEN IF ok
                        THEN [@ EXCEPT !.pc = "send"]
                        ELSE [@ EXCEPT !.pc = "jwt", !.site = 2]
                   ELSE IF ok
                        THEN [@ EXCEPT !.pc = "send", !.fallback = "ok",
                                       !.result = "true"]
                        ELSE [@ EXCEPT !.pc = "idle", !.fallback = "fail",
                                       !.result = "false", !.raised = TRUE]]
    /\ UNCHANGED client

\* lines 242-275: the request itself, with the token held at that moment
SendRequest(k) ==
    /\ caller[k].pc = "send"
    /\ caller' = [caller EXCEPT ![k].pc = "idle"]
    /\ UNCHANGED <<auth, client>>

\* time passes: the token comes within five minutes of its expiry
TokenAges ==
    /\ auth.is_authenticated
    /\ ~auth.expiring
    /\ auth' = [auth EXCEPT !.expiring = TRUE, !.refreshes = 0]
    /\ UNCHANGED <<caller, client>>

(***************************************************************************)
(* RingCentralClient.authenticate (ringcentral_client.py): a coroutine that *)
(* awaits only its own helpers, so one call is one step                     *)
(***************************************************************************)
\* RINGCENTRAL_AUTH_METHOD
AuthMethods == {"jwt", "password"}

\* authenticate_jwt / authenticate_password return True or raise
LoginOutcomes == {"ok", "raises"}

NoClientCall == [method |-> "none", jwt |-> "none", password |-> "none",
                 result |-> "none"]

\* lines 119-143
ClientAuthenticate(method, jwtOutcome, passwordOutcome) ==
    /\ client' =
            IF method = "jwt"
            THEN IF jwtOutcome = "ok"
                 THEN [method |-> method, jwt |-> "ok", password |-> "none",
                       result |-> "true"]
                 ELSE [method |-> method, jwt |-> "fail",
                       password |-> IF passwordOutcome = "ok" THEN "ok" ELSE "fail",
                       result |-> IF passwordOutcome = "ok" THEN "true" ELSE "false"]
            ELSE [method |-> method, jwt |-> "none",
                  password |-> IF passwordOutcome = "ok" THEN "ok" ELSE "fail",
                  result |-> IF passwordOutcome = "ok" THEN "true" ELSE "false"]
    /\ UNCHANGED <<auth, caller>>

InitAuth ==
    /\ auth = [is_authenticated |-> FALSE, token |-> 0, expiring |-> FALSE,
               loaded |-> FALSE, env_refresh |-> FALSE, refreshes |-> 0]
    /\ caller = [k \in Callers |-> NoCaller]
    /\ client = NoClientCall

(***************************************************************************)
(* SIPServer (sip_server.py)                                               *)
(*   calls[id].state  "none" (no entry), "ringing", "answered", "active"   *)
(*   invite[id]       "idle", "delay" (handle_invite sleeps before the     *)
(*                    200 OK), "done", "failed" (it raised)                *)
(*   rtp[id].pc       "none", "start" (thread created), "loop" (socket     *)
(*                    bound, in the while loop), "closed" (socket closed), *)
(*                    "bind_error" (bind raised, the thread died)          *)
(*   rtp[id].old      the thread of an earlier INVITE of the same Call-ID  *)
(*   rtp[id].port     the port the socket is bound to                      *)
(*   rtp[id].buffer   len(audio_buffer)                                    *)
(*   rtp[id].silent   receive timeouts in a row, counted up to MaxSilent   *)
(*   rtp[id].send_failed  a sendto of send_rtp_audio has raised            *)
(*   sipOut[id]       ringing: 180 sent; ok_port: the port in the SDP of   *)
(*                    the 200 OK, 0 before it; bye: 200 sent for a BYE     *)
(***************************************************************************)
\* headers.get('Call-ID', ''): "" for a datagram without that header
SipIds == {"", "c1"}

SipMethods == {"REGISTER", "INVITE", "ACK", "BYE", "OPTIONS", "NOTIFY"}

\* what recvfrom hands to run: bytes that are not UTF-8, a text whose first
\* line is empty, or a request line with the headers that follow it; from is
\* the SIP URI in the From header, "" without one
Datagrams ==
    {[kind |-> k, method |-> "-", call_id |-> "", from |-> ""] :
          k \in {"undecodable", "empty"}}
        \cup {[kind |-> "request", method |-> m, call_id |-> id, from |-> f] :
                  m \in SipMethods, id \in SipIds, f \in {"alice"}}
        \cup {[kind |-> "request", method |-> "REGISTER", call_id |-> id, from |-> ""] :
                  id \in SipIds}

rtp_port == 10000

\* line 266
process_threshold == 8000

\* payload of one RTP datagram read with recvfrom(2048)
PayloadSizes == {2036}

\* a Python dict as a function on its keys: d[id] = v, and del d[id]
DictPut(d, id, v) == [x \in (DOMAIN d) \cup {id} |-> IF x = id THEN v ELSE d[x]]
DictDel(d, id) == [x \in (DOMAIN d) \ {id} |-> d[x]]
\* a per-call record kept only while it differs from that of a call never seen
DictSet(d, id, v, none) == IF v = none THEN DictDel(d, id) ELSE DictPut(d, id, v)

NoSipCall == [state |-> "none", rtp_port |-> 0]

\* no earlier handle_rtp_stream thread
NoRtpThread == [pc |-> "none", port |-> 0]

\* the handle_rtp_stream thread of the latest INVITE of a Call-ID and, in old,
\* the thread of an earlier INVITE of the same Call-ID that is still running;
\* of the earlier thread the socket and the loop test are followed, not its
\* audio buffer
NoRtp == [pc |-> "none", port |-> 0, buffer |-> 0, silent |-> 0,
          send_failed |-> FALSE, old |-> NoRtpThread]

\* the thread in r as an earlier thread
RtpThreadOf(r) == [f \in DOMAIN NoRtpThread |-> r[f]]

NoSipOut == [ringing |-> FALSE, ok_port |-> 0, bye |-> FALSE]

\* the entry, threads and responses of a Call-ID that may have none
SipCall(id) == IF id \in DOMAIN calls THEN calls[id] ELSE NoSipCall
SipInvite(id) == IF id \in DOMAIN invite THEN invite[id] ELSE "idle"
SipRtp(id) == IF id \in DOMAIN rtp THEN rtp[id] ELSE NoRtp
SipOut(id) == IF id \in DOMAIN sipOut THEN sipOut[id] ELSE NoSipOut

SipRegistered(id) == id \in DOMAIN calls

\* lines 88-106
HandleRegister(msg) ==
    /\ registered_users' = IF msg.from # ""
                           THEN registered_users \cup {msg.from}
                           ELSE registered_users
    /\ UNCHANGED <<calls, invite, rtp, sipOut>>

\* handle_invite, lines 108-135: the entry, 100 Trying and 180 Ringing.  One
\* INVITE per Call-ID is in progress at a time, and a retransmitted INVITE is
\* followed while at most one earlier RTP thread of the Call-ID still runs;
\* that thread is kept in old
HandleInvite(id) ==
    /\ SipInvite(id) # "delay"
    /\ SipRtp(id).pc # "start"
    /\ ~(SipRtp(id).pc = "loop" /\ SipRtp(id).old.pc = "loop")
    /\ calls' = DictPut(calls, id,
            [state |-> "ringing",
             rtp_port |-> rtp_port + Cardinality({d \in SipIds : SipRegistered(d)})])
    /\ invite' = DictPut(invite, id, "delay")
    /\ sipOut' = DictPut(sipOut, id, [NoSipOut EXCEPT !.ringing = TRUE])
    /\ rtp' = DictSet(rtp, id,
            [NoRtp EXCEPT !.old = IF SipRtp(id).pc = "loop"
                                  THEN RtpThreadOf(SipRtp(id))
                                  ELSE IF SipRtp(id).old.pc = "loop"
                                  THEN SipRtp(id).old
                                  ELSE NoRtpThread],
            NoRtp)
    /\ UNCHANGED registered_users

\* handle_invite, lines 137-150, after sleep(1): self.calls[call_id] raises
\* KeyError when a BYE removed the entry meanwhile
InviteAnswer(id) ==
    /\ SipInvite(id) = "delay"
    /\ IF SipRegistered(id)
       THEN /\ sipOut' = DictPut(sipOut, id,
                            [SipOut(id) EXCEPT !.ok_port = calls[id].rtp_port])
            /\ calls' = [calls EXCEPT ![id].state = "answered"]
            /\ invite' = DictPut(invite, id, "done")
            /\ rtp' = DictPut(rtp, id, [SipRtp(id) EXCEPT !.pc = "start"])
       ELSE /\ invite' = DictPut(invite, id, "failed")
            /\ UNCHANGED <<calls, rtp, sipOut>>
    /\ UNCHANGED registered_users

\* lines 152-158
HandleAck(id) ==
    /\ calls' = IF SipRegistered(id)
                THEN [calls EXCEPT ![id].state = "active"]
                ELSE calls
    /\ UNCHANGED <<registered_users, invite, rtp, sipOut>>

\* lines 160-171
HandleBye(id) ==
    /\ sipOut' = DictPut(sipOut, id, [SipOut(id) EXCEPT !.bye = TRUE])
    /\ calls' = DictDel(calls, id)
    /\ UNCHANGED <<registered_users, invite, rtp>>

\* run, lines 45-57, and handle_sip_message, lines 59-86: decode raises in the
\* receive loop and lines[0].split()[0] raises in the handler thread, both are
\* caught and logged
HandleSipMessage(msg) ==
    IF msg.kind # "request"
    THEN UNCHANGED sipVars
    ELSE IF msg.method = "REGISTER"
    THEN HandleRegister(msg)
    ELSE IF msg.method = "INVITE"
    THEN HandleInvite(msg.call_id)
    ELSE IF msg.method = "ACK"
    THEN HandleAck(msg.call_id)
    ELSE IF msg.method = "BYE"
    THEN HandleBye(msg.call_id)
    ELSE UNCHANGED sipVars

\* an RTP socket of some thread is bound to port p
PortBound(p) ==
    \E d \in SipIds : \/ SipRtp(d).pc = "loop" /\ SipRtp(d).port = p
                      \/ SipRtp(d).old.pc = "loop" /\ SipRtp(d).old.port = p

\* handle_rtp_stream, lines 236-249: bind raises OSError, before the try
\* block, when another RTP socket holds the port
RtpStart(id) ==
    /\ SipRtp(id).pc = "start"
    /\ rtp' = DictSet(rtp, id,
            IF ~SipRegistered(id)
            THEN [rtp[id] EXCEPT !.pc = "none"]
            ELSE IF PortBound(calls[id].rtp_port)
            THEN [rtp[id] EXCEPT !.pc = "bind_error"]
            ELSE [rtp[id] EXCEPT !.pc = "loop", !.port = calls[id].rtp_port],
            NoRtp)
    /\ UNCHANGED <<calls, registered_users, invite, sipOut>>

\* recvfrom gives a datagram longer than the RTP header, a shorter one, or times
\* out after one second
RtpEvents == {"datagram", "short", "timeout"}

\* process_audio_with_ai, lines 280-301: no text recognised, the answer sent,
\* sendto raising inside send_rtp_audio, or an earlier stage raising
PipelineOutcomes == {"no_text", "sent", "send_error", "stage_error"}

\* one pass of the while loop, lines 252-277, by thread t of a call in state
RtpPass(t, state, ev, n, outcome) ==
    IF state # "active"
    THEN [t EXCEPT !.pc = "closed"]
    ELSE IF ev = "timeout"
    THEN [t EXCEPT !.silent = IF @ < MaxSilent THEN @ + 1 ELSE @]
    ELSE IF ev = "short"
    THEN [t EXCEPT !.silent = 0]
    ELSE IF t.buffer + n > process_threshold
    THEN [t EXCEPT !.buffer = 0, !.silent = 0,
             !.send_failed = @ \/ outcome = "send_error"]
    ELSE [t EXCEPT !.buffer = @ + n, !.silent = 0]

\* a pass by the thread of the latest INVITE of the Call-ID
RtpIteration(id, ev, n, outcome) ==
    /\ SipRtp(id).pc = "loop"
    /\ rtp' = [rtp EXCEPT ![id] = RtpPass(@, SipCall(id).state, ev, n, outcome)]
    /\ UNCHANGED <<calls, registered_users, invite, sipOut>>

\* the loop test of line 252 by the thread of an earlier INVITE of the
\* Call-ID: it leaves the loop and closes its socket when the call is not
\* active, and goes on otherwise
OldRtpLeaves(id) ==
    /\ SipRtp(id).old.pc = "loop"
    /\ SipCall(id).state # "active"
    /\ rtp' = DictSet(rtp, id, [rtp[id] EXCEPT !.old = NoRtpThread], NoRtp)
    /\ UNCHANGED <<calls, registered_users, invite, sipOut>>

InitSip ==
    /\ calls = <<>>
    /\ registered_users = {}
    /\ invite = <<>>
    /\ rtp = <<>>
    /\ sipOut = <<>>

(***************************************************************************)
(* RingCentralSIPServer (src/ringcentral_sip_server.py): the registration  *)
(* with the registrar and the calls the registrar sends.  run() handles    *)
(* every datagram on a thread of its own; a step is what one thread does   *)
(* up to and including its next datagram sent, so register_with_ringcentral*)
(* (one sendto, then the counter) is one step: the answer to a datagram    *)
(* comes a network round trip after it left.                               *)
(***************************************************************************)
\* Call-ID values of the requests received; "" is a request without Call-ID
RcIds == {"", "c1"}
RcCallIds == RcIds \ {""}

\* RINGCENTRAL_CONFIG / LOCAL_CONFIG; the account's credentials by name only
rc_username == "username"
rc_password == "password"
rc_domain == "sip.ringcentral.com"
\* the request URI of REGISTER, f"sip:{domain}"
register_uri == "sip:sip.ringcentral.com"
auth_realm == "ringcentral.com"
rtp_start_port == 10000
\* seconds of socket timeouts after which handle_rtp_stream gives up
silence_limit == 30
\* bytes of payload after which handle_rtp_stream runs the speech processor
speech_threshold == 16000
\* the RTP header, and the datagram sizes recvfrom(2048) returns
rtp_header == 12
RcPayloadSizes == {12, 2048}

\* hashlib.md5(text).hexdigest(), text the fields joined by ':'
Md5(fields) == [md5 |-> fields]

CalculateDigestResponseSwapped(username, realm, password, method, uri, nonce) ==
    LET ha1 == Md5(<<username, realm, password>>)
        ha2 == Md5(<<method, uri>>)
    IN  Md5(<<ha2, nonce, ha1>>)
CalculateDigestResponse(username, realm, password, method, uri, nonce) ==
    LET ha1 == Md5(<<username, realm, password>>)
        ha2 == Md5(<<method, uri>>)
    IN  Md5(<<ha1, nonce, ha2>>)

\* a REGISTER without Authorization header
NoAuthorization == [nonce |-> "", realm |-> "", uri |-> "", response |-> Md5(<<>>)]

\* the nonces and realm parameters of a WWW-Authenticate header, "" for a
\* header without realm parameter
Nonces == {"n1", "n2"}
ChallengeRealms == {"", "sip.ringcentral.com"}

\* what the registrar sends: 200 OK and 401 responses.  A response names a
\* method in its CSeq header only, so 'REGISTER' in message is cseq_method =
\* "REGISTER".  challenge: "none" no WWW-Authenticate: Digest header, "digest"
\* one with a nonce, "no_nonce" one without, "malformed" a parameter without '='
RegDatagrams ==
    [first_line : {"200"}, cseq_method : {"REGISTER", "OPTIONS"}, challenge : {"none"},
     nonce : {""}, realm : {""}, call_id : {""}]
    \cup [first_line : {"401"}, cseq_method : {"REGISTER"}, challenge : {"digest"},
          nonce : Nonces, realm : ChallengeRealms, call_id : {""}]
    \cup [first_line : {"401"}, cseq_method : {"REGISTER"},
          challenge : {"none", "no_nonce", "malformed"},
          nonce : {""}, realm : {""}, call_id : {""}]

\* the requests of a call, and a datagram whose first line is none of those
\* handle_sip_message looks for
CallDatagrams ==
    [first_line : {"INVITE", "BYE", "ACK", "OPTIONS", "other"}, cseq_method : {""},
     challenge : {"none"}, nonce : {""}, realm : {""}, call_id : RcIds]

NoRcCall == [state |-> "none", rtp_port |-> 0]
\* accept: the accept_call thread; rtp: the handle_rtp_stream thread with its
\* audio_buffer and silence_duration; transcribed / syntheses: whether the
\* speech processor transcribed audio of the call, and the speech syntheses
\* performed for it; quiet: the one-second receive timeouts since the last
\* datagram arrived
NoRcThread == [accept |-> "idle", rtp |-> "none", audio_buffer |-> 0,
               silence_duration |-> 0, transcribed |-> FALSE, syntheses |-> 0,
               quiet |-> 0]
NoRcOut == [ringing |-> FALSE, ok_port |-> 0, bye_handled |-> FALSE, bye_ok |-> FALSE]

\* the entry of a call in active_calls, and the threads and responses of a
\* call, for a Call-ID that may have none yet
RcCall(id) == IF id \in DOMAIN rc_calls THEN rc_calls[id] ELSE NoRcCall
RcThread(id) == IF id \in DOMAIN rc_thr THEN rc_thr[id] ELSE NoRcThread
RcOut(id) == IF id \in DOMAIN rc_out THEN rc_out[id] ELSE NoRcOut
RcActive(id) == id \in DOMAIN rc_calls

\* register_with_ringcentral(auth_header): the REGISTER carries self.cseq, and
\* the counter moves only when gethostbyname and sendto raised nothing
RegisterWithRingcentral(auth_header, sent) ==
    IF sent
    THEN /\ registers' = Append(registers, [cseq |-> cseq, authorization |-> auth_header])
         /\ cseq' = cseq + 1
    ELSE UNCHANGED <<registers, cseq>>

\* run(): the first REGISTER, then the receive loop
RcRun(sent) ==
    /\ rc_run = "init"
    /\ rc_run' = "serving"
    /\ RegisterWithRingcentral(NoAuthorization, sent)
    /\ UNCHANGED <<registered, ok_received, rc_calls, rc_thr, rc_out>>

\* registration_loop: one more REGISTER every register_interval - 30 seconds
RegistrationLoop(sent) ==
    /\ rc_run = "serving"
    /\ cseq < MaxCseq
    /\ RegisterWithRingcentral(NoAuthorization, sent)
    /\ UNCHANGED <<rc_run, registered, ok_received, rc_calls, rc_thr, rc_out>>

\* handle_auth_challenge: without header it returns, a parameter without '='
\* or a missing nonce raises in the thread; else one REGISTER with the digest
HandleAuthChallenge(msg, sent) ==
    IF msg.challenge # "digest"
    THEN UNCHANGED <<registers, cseq>>
    ELSE LET realm == IF msg.realm = "" THEN auth_realm ELSE msg.realm
             uri == register_uri
             response == CalculateDigestResponse(rc_username, realm, rc_password,
                                                 "REGISTER", uri, msg.nonce)
         IN  RegisterWithRingcentral([nonce |-> msg.nonce, realm |-> realm,
                                      uri |-> uri, response |-> response], sent)

\* handle_invite: no Call-ID, nothing; else 180 Ringing and the accept_call
\* thread (when sendto raises, the handler ends before it starts the thread)
RcHandleInvite(id, sent) ==
    IF id = "" \/ ~sent
    THEN UNCHANGED <<rc_calls, rc_thr, rc_out>>
    ELSE /\ rc_out' = DictPut(rc_out, id, [NoRcOut EXCEPT !.ringing = TRUE])
         /\ rc_thr' = DictPut(rc_thr, id, [NoRcThread EXCEPT !.accept = "delay"])
         /\ UNCHANGED rc_calls

\* handle_bye: a call in active_calls becomes 'terminated'; 200 OK either way
RcHandleBye(id, sent) ==
    IF id = ""
    THEN UNCHANGED <<rc_calls, rc_thr, rc_out>>
    ELSE /\ rc_calls' = IF RcActive(id)
                         THEN [rc_calls EXCEPT ![id].state = "terminated"]
                         ELSE rc_calls
         /\ rc_out' = DictPut(rc_out, id, [RcOut(id) EXCEPT !.bye_handled = TRUE,
                                                          !.bye_ok = @ \/ sent])
         /\ UNCHANGED rc_thr

\* handle_sip_message, by the first line of the datagram
RcHandleSipMessage(msg, sent) ==
    /\ rc_run = "serving"
    /\ (msg.first_line = "401" /\ msg.challenge = "digest") => cseq < MaxCseq
    /\ (msg.first_line = "INVITE" /\ msg.call_id # "") =>
            /\ RcThread(msg.call_id).accept = "idle"
            /\ RcThread(msg.call_id).rtp \in {"none", "returned", "closed"}
    /\ CASE msg.first_line = "INVITE" ->
                /\ RcHandleInvite(msg.call_id, sent)
                /\ UNCHANGED <<registered, ok_received, registers, cseq>>
         [] msg.first_line = "200" ->
                /\ registered' = (registered \/ msg.cseq_method = "REGISTER")
                /\ ok_received' = (ok_received \/ msg.cseq_method = "REGISTER")
                /\ UNCHANGED <<registers, cseq, rc_calls, rc_thr, rc_out>>
         [] msg.first_line = "401" ->
                /\ HandleAuthChallenge(msg, sent)
                /\ UNCHANGED <<registered, ok_received, rc_calls, rc_thr, rc_out>>
         [] msg.first_line = "BYE" ->
                /\ RcHandleBye(msg.call_id, sent)
                /\ UNCHANGED <<registered, ok_received, registers, cseq>>
         [] OTHER ->
                UNCHANGED <<registered, ok_received, registers, cseq,
                            rc_calls, rc_thr, rc_out>>
    /\ UNCHANGED rc_run

\* accept_call after its sleep(1): the call is stored as 'active' on the
\* first RTP port, 200 OK with that port is sent, the RTP thread starts
AcceptCall(id, sent) ==
    /\ RcThread(id).accept = "delay"
    /\ rc_calls' = DictPut(rc_calls, id, [state |-> "active", rtp_port |-> rtp_start_port])
    /\ rc_thr' = [rc_thr EXCEPT ![id].accept = "idle",
                                ![id].rtp = IF sent THEN "start" ELSE @]
    /\ rc_out' = [rc_out EXCEPT ![id].ok_port = IF sent THEN rtp_start_port ELSE @]
    /\ UNCHANGED <<rc_run, registered, ok_received, registers, cseq>>

\* send_tts_response(text, rtp_socket, call_id) writes the text to the log:
\* no speech is synthesized and nothing is sent
SendTtsResponse(t) == t

\* handle_rtp_stream up to its loop: socket bound, the welcome text handed
\* to send_tts_response
RcRtpStart(id) ==
    /\ RcThread(id).rtp = "start"
    /\ rc_thr' = [rc_thr EXCEPT ![id] =
            IF ~RcActive(id)
            THEN [@ EXCEPT !.rtp = "returned"]
            ELSE SendTtsResponse([@ EXCEPT !.rtp = "loop"])]
    /\ UNCHANGED <<rc_run, registered, ok_received, registers, cseq, rc_calls, rc_out>>

RcRtpEvents == {"timeout", "datagram"}
\* speech_processor.process_audio: a text, no text, or an exception
SpeechOutcomes == {"text", "no_text", "error"}

\* one pass of the loop of handle_rtp_stream; leaving the loop runs finally:
\* the socket is closed and the call deleted from active_calls
RcRtpIteration(id, ev, n, outcome) ==
    /\ RcThread(id).rtp = "loop"
    /\ LET t == rc_thr[id]
           filled == t.audio_buffer + (n - rtp_header)
           leave == \/ RcCall(id).state # "active"
                    \/ ev = "timeout" /\ t.silence_duration + 1 > silence_limit
                    \/ ev = "datagram" /\ n > rtp_header /\ filled > speech_threshold
                                       /\ outcome = "error"
       IN  /\ rc_thr' = [rc_thr EXCEPT ![id] =
                  IF RcCall(id).state # "active" THEN [t EXCEPT !.rtp = "closed"]
                  ELSE IF ev = "timeout"
                  THEN [t EXCEPT !.silence_duration = @ + 1, !.quiet = @ + 1,
                                 !.rtp = IF leave THEN "closed" ELSE @]
                  ELSE IF n <= rtp_header THEN [t EXCEPT !.quiet = 0]
                  ELSE IF filled <= speech_threshold
                  THEN [t EXCEPT !.audio_buffer = filled, !.quiet = 0]
                  ELSE IF outcome = "error"
                  THEN [t EXCEPT !.rtp = "closed", !.audio_buffer = filled, !.quiet = 0]
                  ELSE IF outcome = "text"
                  THEN SendTtsResponse([t EXCEPT !.audio_buffer = 0, !.transcribed = TRUE,
                                                 !.quiet = 0])
                  ELSE [t EXCEPT !.audio_buffer = 0, !.transcribed = TRUE, !.quiet = 0]]
           /\ rc_calls' = IF leave THEN DictDel(rc_calls, id) ELSE rc_calls
    /\ UNCHANGED <<rc_run, registered, ok_received, registers, cseq, rc_out>>

InitRc ==
    /\ rc_run = "init"
    /\ registered = FALSE
    /\ ok_received = FALSE
    /\ cseq = 1
    /\ registers = <<>>
    /\ rc_calls = <<>>
    /\ rc_thr = <<>>
    /\ rc_out = <<>>

(***************************************************************************)
(* One batch of audio through recognition, language model and reply:       *)
(* SIPServer.process_audio_with_ai with sip_voice_ai_engine.VoiceAIEngine,  *)
(* and voice_ai_engine.VoiceAIEngine._process_user_input with LLMHandler    *)
(***************************************************************************)
DialogCalls == {"c1", "c2"}

\* what Whisper makes of a batch: nothing, white space only, or words
RawTexts == {"", " ", "where is my order"}

\* str.strip() of a recognised text (sip_speech_processor.audio_to_text and
\* speech_processor.transcribe_audio both return result["text"].strip())
Strip(raw) == IF raw = " " THEN "" ELSE raw

\* recognition returns a text, or raises: audio_to_text and transcribe_audio
\* catch the exception and return ""; async_transcribe raises what
\* initialize() raised
SttOutcomes == {"text", "caught", "raised"}

\* the request to Ollama: answered with 200, answered otherwise or failed
LlmOutcomes == {"ok", "error"}

\* self.conversation_history[-10:] and llm_handler.max_history
history_window == 10
max_history == 10

\* s[-n:]
LastN(s, n) == SubSeq(s, IF Len(s) > n THEN Len(s) - n + 1 ELSE 1, Len(s))

NoDialog == [path |-> "none", call |-> "none", stt |-> "none", text |-> "",
             llm_called |-> FALSE, messages |-> <<>>, reply |-> "none"]

\* sip_voice_ai_engine.VoiceAIEngine.process_request, lines 39-112: the text
\* is appended to the history of the engine, the last ten messages go to
\* Ollama after the system prompt, the answer or an apology is appended
ProcessRequest(h, c, llm) ==
    LET asked == Append(h, [role |-> "user", call |-> c])
        reply == IF llm = "ok" THEN "answer" ELSE "apology"
    IN  [history |-> Append(asked, [role |-> "assistant", call |-> c]),
         messages |-> LastN(asked, history_window),
         reply |-> reply]

\* SIPServer.process_audio_with_ai, lines 280-301, for a batch of call c
ProcessAudioWithAi(c, raw, stt, llm) ==
    /\ stt # "raised"
    /\ Len(ai_engine) < 2 * MaxTurns
    /\ LET text == IF stt = "caught" THEN "" ELSE Strip(raw)
           r == ProcessRequest(ai_engine, c, llm)
       IN  IF text = ""
           THEN /\ dialog' = [NoDialog EXCEPT !.path = "sip", !.call = c, !.stt = stt]
                /\ UNCHANGED ai_engine
           ELSE /\ dialog' = [path |-> "sip", call |-> c, stt |-> stt, text |-> text,
                              llm_called |-> TRUE, messages |-> r.messages,
                              reply |-> r.reply]
                /\ ai_engine' = r.history
    /\ UNCHANGED conversation_history

\* LLMHandler._build_messages, lines 105-148, without the system prompt: the
\* last max_history exchanges, user and assistant message each, then the input
RECURSIVE Exchanges(_)
Exchanges(h) ==
    IF h = <<>> THEN <<>>
    ELSE <<[role |-> "user", call |-> Head(h).call],
           [role |-> "assistant", call |-> Head(h).call]>> \o Exchanges(Tail(h))

BuildMessages(h, c) ==
    Exchanges(LastN(h, max_history)) \o <<[role |-> "user", call |-> c]>>

\* LLMHandler._update_history, lines 150-160
UpdateHistory(h, c) == LastN(Append(h, [call |-> c]), max_history)

\* VoiceAIEngine._process_user_input, lines 225-263, for a batch of call c, and
\* generate_response, lines 40-103, which it awaits; the conversation loop
\* speaks whatever text comes back (lines 186-191)
ProcessUserInput(c, raw, stt, llm) ==
    /\ Len(conversation_history) < MaxTurns
    /\ LET text == IF stt = "caught" THEN "" ELSE Strip(raw)
       IN  IF stt = "raised"
           THEN /\ dialog' = [NoDialog EXCEPT !.path = "engine", !.call = c,
                                               !.stt = stt, !.reply = "trouble"]
                /\ UNCHANGED conversation_history
           ELSE IF text = ""
           THEN /\ dialog' = [NoDialog EXCEPT !.path = "engine", !.call = c,
                                               !.stt = stt, !.reply = "repeat"]
                /\ UNCHANGED conversation_history
           ELSE /\ dialog' = [path |-> "engine", call |-> c, stt |-> stt, text |-> text,
                              llm_called |-> TRUE,
                              messages |-> BuildMessages(conversation_history, c),
                              reply |-> IF llm = "ok" THEN "answer" ELSE "fallback"]
                /\ conversation_history' =
                       IF llm = "ok" THEN UpdateHistory(conversation_history, c)
                       ELSE conversation_history
    /\ UNCHANGED ai_engine

InitDialog ==
    /\ ai_engine = <<>>
    /\ conversation_history = <<>>
    /\ dialog = NoDialog

(***************************************************************************)
(* The handlers of the webhook server lock by lock: every with block of    *)
(* call_lock and answer_lock in webhook_server.py and the requests to the  *)
(* telephony API made by the same functions.  A with block is two steps,   *)
(* taking the lock, and running the body and releasing it; a request is    *)
(* in progress from the step before it until make_request returns.         *)
(***************************************************************************)
Workers == 1..MaxWorkers

With(lock, body) == [kind |-> "with", lock |-> lock, body |-> body]
Request(name) == [kind |-> "request", lock |-> "-", body |-> name]

\* the with blocks and requests of each function, in the order of the source:
\* _handle_telephony_session lines 561-563 (a call is stored), 629-637 (a
\* terminal event), 647-655 (a status change); get_active_calls 938-939;
\* transfer_call 968-985; hangup_call 1002-1018; answer_call_automatically
\* 1351-1443
Program(op) ==
    CASE op = "telephony_setup" -> <<With("call_lock", "store")>>
      [] op = "telephony_terminal" ->
            <<With("call_lock", "delete"), With("answer_lock", "discard")>>
      [] op = "telephony_status" -> <<With("call_lock", "status")>>
      [] op = "get_active_calls" -> <<With("call_lock", "list")>>
      [] op = "transfer_call" -> <<With("call_lock", "read"), Request("transfer")>>
      [] op = "hangup_call" ->
            <<With("call_lock", "read"), Request("hangup"), With("call_lock", "delete")>>
      [] op = "answer_call_automatically" ->
            <<With("answer_lock", "mark"), Request("session"), Request("answer"),
              With("answer_lock", "discard")>>

\* what a handler is started with: the function, the callId, the status code
\* of the event and whether a device id came with it
HandlerInputs ==
    [op : {"telephony_setup", "telephony_terminal", "get_active_calls", "transfer_call",
           "hangup_call"},
     call : CallIds, code : {"-"}, device : {TRUE}]
    \cup [op : {"telephony_status"}, call : CallIds,
          code : {"Answered", "Disconnected"}, device : {TRUE}]
    \cup [op : {"answer_call_automatically"}, call : CallIds, code : {"-"},
          device : BOOLEAN]

NoHandler == [op |-> "none", call |-> "none", code |-> "-", device |-> TRUE,
              pc |-> 0, inside |-> FALSE]

\* the instruction handler w is at
Instr(w) == Program(handler[w].op)[handler[w].pc]

\* make_request of handler w is in progress
Requesting(w) == handler[w].pc > 0 /\ Instr(w).kind = "request"

\* handler w goes on with its next instruction, or returns after the last
Advance(w) ==
    IF handler[w].pc < Len(Program(handler[w].op))
    THEN [handler EXCEPT ![w].pc = @ + 1, ![w].inside = FALSE]
    ELSE [handler EXCEPT ![w] = NoHandler]

Return(w) == [handler EXCEPT ![w] = NoHandler]

\* a request arrives at Flask, or a thread is started for a call
StartHandler(w, in) ==
    /\ handler[w].pc = 0
    /\ handler' = [handler EXCEPT ![w] =
            [op |-> in.op, call |-> in.call, code |-> in.code, device |-> in.device,
             pc |-> 1, inside |-> FALSE]]
    /\ UNCHANGED <<call_lock, answer_lock, active_calls, answered_calls>>

\* with lock: the handler waits until the lock is free and takes it
Enter(w) ==
    /\ handler[w].pc > 0
    /\ Instr(w).kind = "with"
    /\ ~handler[w].inside
    /\ IF Instr(w).lock = "call_lock"
       THEN call_lock = 0 /\ call_lock' = w /\ UNCHANGED answer_lock
       ELSE answer_lock = 0 /\ answer_lock' = w /\ UNCHANGED call_lock
    /\ handler' = [handler EXCEPT ![w].inside = TRUE]
    /\ UNCHANGED <<active_calls, answered_calls>>

\* a with block that does not release its lock at the end
ReleasedKept(holder, w) == holder
\* the end of a with block: the lock handler w holds is free again
Released(holder, w) == IF holder = w THEN 0 ELSE holder

\* the body of the with block handler w is in, and the release of its lock
Leave(w) ==
    /\ handler[w].pc > 0
    /\ Instr(w).kind = "with"
    /\ handler[w].inside
    /\ LET c == handler[w].call
           body == Instr(w).body
       IN  /\ active_calls' =
                  IF body = "store"
                  THEN [active_calls EXCEPT ![c] =
                           [obj |-> w, status |-> "Setup", updated |-> FALSE]]
                  ELSE IF body = "delete"
                  THEN [active_calls EXCEPT ![c] = NoCall]
                  ELSE IF body = "status" /\ Registered(c)
                  THEN [active_calls EXCEPT ![c] =
                           IF handler[w].code = "Disconnected"
                           THEN NoCall
                           ELSE [obj |-> @.obj, status |-> handler[w].code,
                                 updated |-> TRUE]]
                  ELSE active_calls
           /\ answered_calls' =
                  IF body = "mark" THEN answered_calls \cup {c}
                  ELSE IF body = "discard" THEN answered_calls \ {c}
                  ELSE answered_calls
           /\ handler' =
                  IF \/ body = "read" /\ ~Registered(c)
                     \/ body = "mark" /\ c \in answered_calls
                  THEN Return(w)
                  ELSE Advance(w)
    /\ call_lock' = IF Instr(w).lock = "call_lock"
                    THEN Released(call_lock, w) ELSE call_lock
    /\ answer_lock' = IF Instr(w).lock = "answer_lock"
                      THEN Released(answer_lock, w) ELSE answer_lock

\* make_request returns normally, returns a session whose party cannot be
\* answered (only the session query), or raises
RequestOutcomes == {"ok", "refused", "error"}

\* make_request of handler w returns.  transfer_call and hangup_call answer
\* 500 when it raised; answer_call_automatically goes on to the answer
\* request when the query raised, returns False when the party cannot be
\* answered or no device id was given, returns True after the answer
\* request, and when that raised goes to the with block of line 1441
RequestReturns(w, outcome) ==
    /\ Requesting(w)
    /\ outcome = "refused" => Instr(w).body = "session"
    /\ handler' =
          LET req == Instr(w).body
          IN  IF req = "session"
              THEN IF outcome = "refused" \/ ~handler[w].device
                   THEN Return(w) ELSE Advance(w)
              ELSE IF req = "answer"
              THEN IF outcome = "ok" THEN Return(w) ELSE Advance(w)
              ELSE IF outcome = "ok" THEN Advance(w) ELSE Return(w)
    /\ UNCHANGED <<call_lock, answer_lock, active_calls, answered_calls>>

InitLocks ==
    /\ call_lock = 0
    /\ answer_lock = 0
    /\ handler = [w \in Workers |-> NoHandler]

\* the webhook server takes no step / the audio coordinators take no step
WebhookIdle == UNCHANGED <<webhookVars, lastTerminal>>
AudioIdle == UNCHANGED <<audioVars, lastCycle>>
EngineIdle == UNCHANGED engine
RouteIdle == UNCHANGED http
AuthIdle == UNCHANGED authVars
\* the components that appear in none of the webhook, audio and engine steps
SipIdle == UNCHANGED sipVars
RcIdle == UNCHANGED rcVars
DialogIdle == UNCHANGED dialogVars
LockIdle == UNCHANGED lockVars
ElsewhereIdle == AuthIdle /\ SipIdle /\ RcIdle /\ DialogIdle /\ LockIdle
\* a step of the authentication code alone
AuthStep == WebhookIdle /\ AudioIdle /\ EngineIdle /\ RouteIdle /\ SipIdle /\ RcIdle /\ DialogIdle
            /\ LockIdle
\* a step of SIPServer alone
SipStep == WebhookIdle /\ AudioIdle /\ EngineIdle /\ RouteIdle /\ AuthIdle /\ RcIdle /\ DialogIdle
            /\ LockIdle
\* a step of RingCentralSIPServer alone
RcStep == WebhookIdle /\ AudioIdle /\ EngineIdle /\ RouteIdle /\ AuthIdle /\ SipIdle /\ DialogIdle
            /\ LockIdle
\* a batch of audio through one of the pipelines alone
DialogStep == WebhookIdle /\ AudioIdle /\ EngineIdle /\ RouteIdle /\ AuthIdle /\ SipIdle /\ RcIdle
              /\ LockIdle
\* a step of a handler followed lock by lock
LockStep == UNCHANGED <<thr, ended, callbacks>> /\ NoTerminal /\ AudioIdle /\ EngineIdle
            /\ RouteIdle /\ AuthIdle /\ SipIdle /\ RcIdle /\ DialogIdle
\* a step of the engine alone
EngineStep == UNCHANGED webhookVars /\ NoTerminal /\ AudioIdle

Init == InitWebhook /\ InitAudio /\ InitEngine /\ InitRoute /\ InitAuth /\ InitSip /\ InitRc
        /\ InitDialog /\ InitLocks

Next ==
    \/ \E c \in CallIds, ev \in Events : WebhookEvent(c, ev) /\ AudioIdle /\ EngineIdle /\ ElsewhereIdle /\ RouteIdle
    \/ \E c \in CallIds, ok \in BOOLEAN : HangupCall(c, ok) /\ NoTerminal /\ AudioIdle /\ EngineIdle /\ ElsewhereIdle /\ RouteIdle
    \/ \E c \in CallIds, hasDevice \in BOOLEAN :
            HandleIncomingCall(c, hasDevice) /\ NoTerminal /\ AudioIdle /\ EngineIdle /\ ElsewhereIdle /\ RouteIdle
    \/ \E t \in Threads : RunAnswerCall(t) /\ NoTerminal /\ AudioIdle /\ EngineIdle /\ ElsewhereIdle /\ RouteIdle
    \/ \E t \in Threads : CheckAndMark(t) /\ NoTerminal /\ AudioIdle /\ EngineIdle /\ ElsewhereIdle /\ RouteIdle
    \/ \E t \in Threads, outcome \in QueryOutcomes :
            QueryPartyStatus(t, outcome) /\ NoTerminal /\ AudioIdle /\ EngineIdle /\ ElsewhereIdle /\ RouteIdle
    \/ \E t \in Threads, outcome \in PostOutcomes :
            PostAnswer(t, outcome) /\ NoTerminal /\ AudioIdle /\ EngineIdle /\ ElsewhereIdle /\ RouteIdle

Spec == Init /\ [][Next]_vars

NextAudio ==
    \/ \E k \in Conns, c \in CallIds : Connect(k, c) /\ WebhookIdle /\ EngineIdle /\ ElsewhereIdle /\ RouteIdle
    \/ \E k \in Conns, n \in MessageSizes : ReceiveAudio(k, n) /\ WebhookIdle /\ EngineIdle /\ ElsewhereIdle /\ RouteIdle
    \/ \E k \in Conns, outcome \in TranscribeOutcomes : Transcribe(k, outcome) /\ WebhookIdle /\ EngineIdle /\ ElsewhereIdle /\ RouteIdle
    \/ \E k \in Conns, ok \in BOOLEAN : LaterStage(k, ok) /\ WebhookIdle /\ EngineIdle /\ ElsewhereIdle /\ RouteIdle
    \/ \E k \in Conns : Disconnect(k) /\ WebhookIdle /\ EngineIdle /\ ElsewhereIdle /\ RouteIdle
    \/ \E n \in FrameSizes : OnFrameReceived(n) /\ WebhookIdle /\ EngineIdle /\ ElsewhereIdle /\ RouteIdle
    \/ WorkerStage /\ WebhookIdle /\ EngineIdle /\ ElsewhereIdle /\ RouteIdle

SpecAudio == Init /\ [][NextAudio]_vars

NextEngine ==
    \/ \E c \in CallIds, ev \in Events : WebhookEvent(c, ev) /\ AudioIdle /\ EngineIdle /\ ElsewhereIdle /\ RouteIdle
    \/ \E c \in CallIds : EngineHandleIncomingCall(c) /\ EngineStep /\ ElsewhereIdle /\ RouteIdle
    \/ \E c \in CallIds, ok \in BOOLEAN : AnswerCall(c, ok) /\ EngineStep /\ ElsewhereIdle /\ RouteIdle
    \/ \E c \in CallIds : ConversationListen(c) /\ EngineStep /\ ElsewhereIdle /\ RouteIdle
    \/ \E c \in CallIds : ConversationTimeout(c) /\ EngineStep /\ ElsewhereIdle /\ RouteIdle
    \/ \E c \in CallIds : LoopClosed(c) /\ EngineStep /\ ElsewhereIdle /\ RouteIdle
    \/ \E c \in CallIds : TaskFinalized(c) /\ EngineStep /\ ElsewhereIdle /\ RouteIdle

SpecEngine == Init /\ [][NextEngine]_vars

\* what a running event loop does in the end: the awaited synthesis returns or
\* raises, a scheduled task gets its turn, the timer of the sleep fires until
\* call_timeout has passed
FairSpecEngine ==
    /\ SpecEngine
    /\ \A c \in CallIds :
          /\ WF_vars(\E ok \in BOOLEAN : AnswerCall(c, ok) /\ EngineStep /\ ElsewhereIdle /\ RouteIdle)
          /\ WF_vars(ConversationListen(c) /\ EngineStep /\ ElsewhereIdle /\ RouteIdle)
          /\ WF_vars(ConversationTimeout(c) /\ EngineStep /\ ElsewhereIdle /\ RouteIdle)

NextRoute ==
    \/ \E body \in RawBodies : \E signature \in SignatureHeaders(body) :
            WebhookPost(body, signature) /\ AudioIdle /\ EngineIdle /\ ElsewhereIdle
    \/ \E challenge \in Tokens \cup {""}, hasCallParams \in BOOLEAN :
            WebhookGet(challenge, hasCallParams) /\ AudioIdle /\ EngineIdle /\ ElsewhereIdle

SpecRoute == Init /\ [][NextRoute]_vars

NextAuth ==
    \/ \E e \in BOOLEAN : LoadEnvironment(e) /\ AuthStep
    \/ \E k \in Callers : MakeRequest(k) /\ AuthStep
    \/ \E k \in Callers, outcome \in JwtOutcomes : TryJwtAuth(k, outcome) /\ AuthStep
    \/ \E k \in Callers, outcome \in RefreshOutcomes : TryRefreshToken(k, outcome) /\ AuthStep
    \/ \E k \in Callers : SendRequest(k) /\ AuthStep
    \/ TokenAges /\ AuthStep
    \/ \E m \in AuthMethods, j \in LoginOutcomes, w \in LoginOutcomes :
            ClientAuthenticate(m, j, w) /\ AuthStep

SpecAuth == Init /\ [][NextAuth]_vars

NextSip ==
    \/ \E msg \in Datagrams : HandleSipMessage(msg) /\ SipStep
    \/ \E id \in SipIds : InviteAnswer(id) /\ SipStep
    \/ \E id \in SipIds : RtpStart(id) /\ SipStep
    \/ \E id \in SipIds, ev \in RtpEvents, n \in PayloadSizes, outcome \in PipelineOutcomes :
            RtpIteration(id, ev, n, outcome) /\ SipStep
    \/ \E id \in SipIds : OldRtpLeaves(id) /\ SipStep

SpecSip == Init /\ [][NextSip]_vars

NextDialog ==
    \/ \E c \in DialogCalls, raw \in RawTexts, stt \in SttOutcomes, llm \in LlmOutcomes :
            ProcessAudioWithAi(c, raw, stt, llm) /\ DialogStep
    \/ \E c \in DialogCalls, raw \in RawTexts, stt \in SttOutcomes, llm \in LlmOutcomes :
            ProcessUserInput(c, raw, stt, llm) /\ DialogStep

SpecDialog == Init /\ [][NextDialog]_vars

NextLocks ==
    \/ \E w \in Workers, in \in HandlerInputs : StartHandler(w, in) /\ LockStep
    \/ \E w \in Workers : Enter(w) /\ LockStep
    \/ \E w \in Workers : Leave(w) /\ LockStep
    \/ \E w \in Workers, outcome \in RequestOutcomes : RequestReturns(w, outcome) /\ LockStep

SpecLocks == Init /\ [][NextLocks]_vars

\* the registration of RingCentralSIPServer: run, the re-registration loop and
\* the responses of the registrar
NextRcReg ==
    \/ \E sent \in BOOLEAN : RcRun(sent) /\ RcStep
    \/ \E sent \in BOOLEAN : RegistrationLoop(sent) /\ RcStep
    \/ \E msg \in RegDatagrams, sent \in BOOLEAN : RcHandleSipMessage(msg, sent) /\ RcStep

SpecRcReg == Init /\ [][NextRcReg]_vars

\* the calls of RingCentralSIPServer
NextRcCall ==
    \/ \E sent \in BOOLEAN : RcRun(sent) /\ RcStep
    \/ \E msg \in CallDatagrams, sent \in BOOLEAN : RcHandleSipMessage(msg, sent) /\ RcStep
    \/ \E id \in RcCallIds, sent \in BOOLEAN : AcceptCall(id, sent) /\ RcStep
    \/ \E id \in RcCallIds : RcRtpStart(id) /\ RcStep
    \/ \E id \in RcCallIds, ev \in RcRtpEvents, n \in RcPayloadSizes, outcome \in SpeechOutcomes :
            RcRtpIteration(id, ev, n, outcome) /\ RcStep

SpecRcCall == Init /\ [][NextRcCall]_vars

\* an awaited stage (speech recognition, language model, synthesis, socket send)
\* returns or raises; the worker thread is scheduled
FairSpecAudio ==
    /\ SpecAudio
    /\ \A k \in Conns : WF_vars(StreamStage(k) /\ WebhookIdle /\ EngineIdle /\ ElsewhereIdle /\ RouteIdle)
    /\ WF_vars(WorkerStage /\ WebhookIdle /\ EngineIdle /\ ElsewhereIdle /\ RouteIdle)


(***************************************************************************)
(* Claims about the webhook server, checked under Spec                     *)
(***************************************************************************)

\* C1: for every sequence of webhook events of one callId and every interleaving
\* of the threads they start, the provider receives at most one answer request
\* (POST .../parties/{partyId}/answer) for that callId.
\* Stated for the case the data model singles out: once the answer request of a
\* callId has been sent and accepted, no webhook event makes a second one be sent.
C1_AnswerRequestAtMostOnce ==
    [][\A c \in CallIds :
          AcceptedAnswers(c) # {} => AnswerRequests(c)' = AnswerRequests(c)]_vars

\* C2: while one invocation of answer_call_automatically has set the marker of a
\* callId and has not returned, every other invocation for that callId that
\* reaches the guard returns False (and so issues no answer request).
C2_ConcurrentAttemptRejected ==
    [][\A t, u \in Threads :
          (/\ t # u
           /\ thr[t].call = thr[u].call
           /\ thr[t].marked /\ Running(t)
           /\ thr[u].pc = "guard" /\ thr'[u].pc # "guard")
          => thr'[u].result = "false"]_vars

\* C3: when an invocation that set the marker returns False, its callId is not
\* in answered_calls at the moment it returns.
C3_FailureReleasesMarker ==
    [][\A t \in Threads :
          (/\ thr[t].marked /\ Running(t)
           /\ thr'[t].pc = "done" /\ thr'[t].result = "false")
          => thr[t].call \notin answered_calls']_vars

\* C4: once a terminal event has been processed for a callId, no later webhook
\* event registers the callId again or starts an answer thread for it.
C4_EndedCallNotResurrected ==
    [][\A c \in ended :
          /\ Registered(c)' => Registered(c)
          /\ \A t \in Threads :
                (thr[t].pc = "idle" /\ thr'[t].source = "webhook") => thr'[t].call # c]_vars

\* C5: a callId that is registered and stays registered keeps its session
\* object: a creating event for it updates the session, never replaces it.
C5_RegisteredSessionKept ==
    [][\A c \in CallIds :
          (Registered(c) /\ Registered(c)')
          => active_calls'[c].obj = active_calls[c].obj]_vars

\* C6: after an inbound event with status Disconnected, Gone or Cancelled has
\* been processed for a callId, the callId is in neither active_calls nor
\* answered_calls.
C6_TerminalEventReleasesBoth ==
    \A c \in CallIds :
        lastTerminal = c => (~Registered(c) /\ c \notin answered_calls)

\* a terminal event was processed for a call that had been registered and whose
\* answer thread had set the marker; both entries are gone
C6_Witness ==
    \E c \in CallIds :
        /\ lastTerminal = c
        /\ ~Registered(c)
        /\ c \notin answered_calls
        /\ \E t \in Threads : thr[t].call = c /\ thr[t].marked /\ Running(t)

\* C7: running the cleanup path again for an ended call has no side effect: in
\* particular a duplicated terminal webhook dials no second call-back.
C7_CleanupTwiceNoSecondCallback ==
    [][\A c \in ended : callbacks'[c] = callbacks[c]]_vars

(***************************************************************************)
(* Claims about the audio coordinators, checked under SpecAudio and        *)
(* FairSpecAudio                                                           *)
(***************************************************************************)

\* C8: for every call at most one transcribe -> generate -> synthesize cycle is
\* in progress at any time.
C8_OneCyclePerCall ==
    \A c \in CallIds : Cardinality(CyclesInProgress(c)) <= 1

\* C9: every pipeline cycle that sets is_processing (AudioStreamHandler) or
\* processing (AudioProcessor) to true eventually sets it back to false,
\* whether the cycle succeeds, finds no text or fails in one of its stages.
C9_ProcessingEventuallyCleared ==
    /\ \A k \in Conns : stream[k].is_processing ~> ~stream[k].is_processing
    /\ processing ~> ~processing

\* a cycle of a stream session has just ended with an exception in one of its
\* stages, and no flag of that call is left set: the next threshold crossing
\* starts a new cycle
C9_Witness ==
    /\ lastCycle = "exception"
    /\ \E k \in Conns : stream[k].pc = "recv" /\ stream[k].audio_buffer = 0
    /\ \A k \in Conns : ~stream[k].is_processing

\* C10: when the buffered audio reaches the threshold while no cycle runs, the
\* buffer is empty immediately after the batch has been taken out of it.
C10_BufferEmptyAfterSwap ==
    [][/\ (~processing /\ processing') => incoming_buffer' = 0
       /\ \A k \in Conns :
             (~stream[k].is_processing /\ stream'[k].is_processing)
             => stream'[k].audio_buffer = 0]_vars

\* C11: audio ingestion never waits for the pipeline: while a cycle started from
\* the message loop of a connection is running, that loop can take the next
\* fragment from the socket and append it to the buffer.
C11_IngestionNeverWaits ==
    \A k \in Conns :
        stream[k].pc \in StreamStages
        => ENABLED (\E n \in MessageSizes : ReceiveAudio(k, n))

\* C12: tearing a call down cancels its in-flight work: once the terminal event
\* of a call has been processed, an answer thread started for the session that
\* was torn down sends no answer request any more.
C12_TeardownCancelsAnswer ==
    [][\A t \in Threads :
          (/\ thr[t].source = "webhook"
           /\ thr[t].call \in ended
           /\ active_calls[thr[t].call].obj # t)
          => thr'[t].issued = thr[t].issued]_vars

(***************************************************************************)
(* Claims about the engine next to the webhook handler, checked under      *)
(* SpecEngine                                                              *)
(***************************************************************************)

\* C13: when the Disconnected event of a call is processed after the call was
\* answered and before the synthesis of its greeting completes, the session is
\* removed from the engine registry as well, and the greeting is not delivered.
C13_DisconnectCancelsGreeting ==
    /\ [](\A c \in CallIds : lastTerminal = c => ~EngineRegistered(c))
    /\ [][\A c \in CallIds :
             (c \in ended /\ ~engine[c].afterEnd) => ~GreetingReturned(c)]_vars

(***************************************************************************)
(* Further claims about the webhook server, checked under Spec             *)
(***************************************************************************)

\* C14: a session is removed from active_calls only when no answer work started
\* for that session is still in flight.
C14_RemovedOnlyWhenIdle ==
    [][\A c \in CallIds :
          (Registered(c) /\ ~Registered(c)') => ~Running(active_calls[c].obj)]_vars

\* the answer thread and worker launched by the event a step handles
Launched == \E t \in Threads : thr[t].pc = "idle" /\ thr'[t].pc # "idle"

\* C15: an inbound event with status Setup, Ringing or Proceeding for a callId
\* that is not registered creates the session entry, and launches the answer
\* sequence exactly if the number is the monitored line and deviceId is present.
C15_FirstSightCreatesSession ==
    \A c \in CallIds, ev \in Events :
        (ev.code \in {"Setup", "Ringing", "Proceeding"} /\ ~Registered(c) /\ FreeSlot # 0)
        => ENABLED (/\ WebhookEvent(c, ev)
                    /\ Registered(c)'
                    /\ Launched <=> (MatchesAnswerTarget(ev.number) /\ ev.hasDevice))

\* C16: after an inbound Setup event for the monitored number without deviceId,
\* no answer thread has been started and the call is registered.
C16_NoDeviceStillTracked ==
    \A c \in CallIds, ev \in Events :
        (ev.code = "Setup" /\ MatchesAnswerTarget(ev.number) /\ ~ev.hasDevice)
        => ENABLED (/\ WebhookEvent(c, ev)
                    /\ ~Launched
                    /\ Registered(c)')

\* C17: when the party-status query made before answering reports Disconnected,
\* Gone, Cancelled, Answered or Connected, the answer attempt ends with the
\* result False and without having sent the answer request.
C17_InvalidStatusNoAnswer ==
    \A t \in Threads, o \in InvalidStatuses :
        thr[t].pc = "query" =>
            ENABLED (/\ QueryPartyStatus(t, o)
                     /\ thr'[t].pc = "done"
                     /\ thr'[t].result = "false"
                     /\ ~thr'[t].issued)

\* an attempt that held a device id and made the query has ended False with no
\* request sent, its marker still in place
C17_Witness ==
    \E t \in Threads :
        /\ thr[t].pc = "done"
        /\ thr[t].marked
        /\ thr[t].device
        /\ thr[t].result = "false"
        /\ ~thr[t].issued
        /\ thr[t].call \in answered_calls

\* C18: an inbound Answered or Connected event for a registered call launches
\* nothing, leaves the answer marker alone, keeps the call registered and stores
\* the new status in the call's entry.
C18_AnsweredEventOnlyUpdatesState ==
    \A c \in CallIds, ev \in Events :
        (Registered(c) /\ ev.code \in AnsweredCodes) =>
            ENABLED (/\ WebhookEvent(c, ev)
                     /\ UNCHANGED <<answered_calls, thr, callbacks>>
                     /\ Registered(c)'
                     /\ active_calls'[c].status = ev.code)

\* C19: an event for an unregistered callId whose status is not Setup, Ringing or
\* Proceeding changes neither table, sends no provider request and starts no
\* background worker.
C19_UnknownCallIgnored ==
    \A c \in CallIds, ev \in Events :
        (~Registered(c) /\ ev.code \notin {"Setup", "Ringing", "Proceeding"}
            /\ callbacks[c] < MaxVoicemail) =>
            ENABLED (/\ WebhookEvent(c, ev)
                     /\ UNCHANGED <<active_calls, answered_calls, thr, callbacks>>)

C21_ChallengeEchoed ==
    \A method \in {"GET", "POST"}, token \in Tokens, hasCallParams \in BOOLEAN :
        \A body \in RawBodies : \A signature \in SignatureHeaders(body) :
            ENABLED (/\ RingcentralWebhook(method, token, hasCallParams, body, signature)
                     /\ http'.status = 200
                     /\ http'.body = token
                     /\ UNCHANGED webhookVars)

\* C22: when several threads see the access token within the refresh margin at
\* the same time, one refresh request goes to the provider and the others use
\* the token it brought: no thread sends a refresh request for a token that
\* another thread's refresh has already replaced.
C22_SingleFlightRefresh ==
    [][\A k \in Callers :
          (caller[k].pc = "refresh" /\ caller'[k].pc # "refresh" /\ auth.env_refresh)
              => auth.expiring]_vars

\* C23: authenticate tries JWT first and the one fallback method (refresh token,
\* password) only after JWT has failed; it returns True exactly when one of the
\* two succeeded, and returns False only after both were tried and failed.
C23_OneFallbackThenFalse ==
    /\ \A k \in Callers :
          /\ caller[k].fallback # "none" => caller[k].jwt = "fail"
          /\ caller[k].result = "true" <=>
                 (caller[k].jwt = "ok" \/ caller[k].fallback = "ok")
          /\ caller[k].result = "false" =>
                 (caller[k].jwt = "fail" /\ caller[k].fallback = "fail")
    /\ client.password # "none" => client.jwt = "fail"
    /\ client.result = "true" <=> (client.jwt = "ok" \/ client.password = "ok")
    /\ client.result = "false" => (client.jwt = "fail" /\ client.password = "fail")

\* C25: for each inbound INVITE 180 Ringing goes out before the 200 OK, whose SDP
\* names the call's RTP port, and once the 200 OK is sent and the RTP thread has
\* started, a receive loop bound to that port runs for as long as no BYE has
\* ended the call, whenever the ACK arrives.
C25_RtpLoopRunsAfterOk ==
    \A id \in SipIds :
        /\ SipOut(id).ok_port # 0 => SipOut(id).ringing
        /\ (SipOut(id).ok_port # 0 /\ SipRegistered(id) /\ SipRtp(id).pc # "start") =>
              (SipRtp(id).pc = "loop" /\ SipRtp(id).port = SipOut(id).ok_port)

\* C27: when no RTP datagram has arrived for the whole idle window, the call is
\* torn down as on BYE: its receive loop has stopped with the socket closed and
\* its session is gone.
C27_IdleCallTornDown ==
    \A id \in SipIds :
        SipRtp(id).silent >= MaxSilent => (SipRtp(id).pc = "closed" /\ ~SipRegistered(id))

\* a datagram that is not a well-formed request carrying a Call-ID
Malformed(msg) == msg.kind # "request" \/ msg.call_id = ""

\* C28: a malformed or truncated SIP datagram (undecodable bytes, an empty or
\* one-token first line, no Call-ID) changes no call and no registration state,
\* and the receive loop is there for the next datagram.
C28_MalformedDatagramDropped ==
    \A msg \in Datagrams :
        (Malformed(msg) /\ SipInvite(msg.call_id) = "idle") =>
            ENABLED (/\ HandleSipMessage(msg)
                     /\ UNCHANGED <<calls, registered_users, invite, rtp>>)

\* C29: a socket error while sending a call's audio tears the call down: the RTP
\* loop has stopped and the session is removed, so that the send is not tried
\* again and the call does not stay active.
C29_SendErrorTearsDown ==
    \A id \in SipIds :
        SipRtp(id).send_failed => (SipRtp(id).pc = "closed" /\ ~SipRegistered(id))

(***************************************************************************)
(* Claims about RingCentralSIPServer, checked under SpecRcReg (the         *)
(* registration) and SpecRcCall (the calls)                                *)
(***************************************************************************)
\* the REGISTER sent last
LastRegister == registers[Len(registers)]

C26_ByeEndsCall ==
    \A id \in RcCallIds :
        (RcOut(id).bye_handled /\ RcOut(id).bye_ok) => RcCall(id).state # "active"

\* C30: a call whose audio has been transcribed had exactly one synthesis of
\* the welcome message before.
C30_OneGreetingBeforeTranscription ==
    \A id \in RcCallIds : RcThread(id).transcribed => RcThread(id).syntheses = 1

\* C40: a call on which a datagram arrives within every idle window is not torn
\* down by the inactivity timeout: when the loop has counted more timeouts than
\* silence_limit and ended, that many timeouts had passed since the last
\* datagram.
C40_ActiveCallNotTimedOut ==
    \A id \in RcCallIds :
        RcThread(id).silence_duration > silence_limit
            => RcThread(id).quiet > silence_limit

(***************************************************************************)
(* Further claims about the webhook server, checked under Spec             *)
(***************************************************************************)
\* C35: once the terminal event of a call has been processed and every answer
\* thread started for that call has finished, the callId is not in
\* answered_calls, in whichever order the terminal handler and the answer
\* thread took answer_lock.
C35_MarkerDoesNotLeak ==
    \A c \in CallIds :
        (/\ c \in ended
         /\ ~Registered(c)
         /\ \E t \in Threads : thr[t].call = c
         /\ \A t \in Threads : thr[t].call = c => ~Running(t) /\ thr[t].source = "webhook")
        => c \notin answered_calls

(***************************************************************************)
(* Further claims about SIPServer, checked under SpecSip                   *)
(***************************************************************************)
\* C36: two distinct calls that are active in the SIP server at the same time
\* have distinct RTP ports, after every sequence of INVITE and BYE requests.
C36_DistinctRtpPorts ==
    \A a \in SipIds, b \in SipIds :
        (a # b /\ SipCall(a).state = "active" /\ SipCall(b).state = "active")
        => SipCall(a).rtp_port # SipCall(b).rtp_port

\* C37: for one SIP Call-ID at most one RTP receive loop runs at a time, also
\* when the INVITE is retransmitted; stated for a call that is active, so that
\* neither loop is about to end.
C37_OneRtpLoopPerCall ==
    \A id \in SipIds :
        SipCall(id).state = "active"
            => ~(SipRtp(id).pc = "loop" /\ SipRtp(id).old.pc = "loop")

(***************************************************************************)
(* Further claims about the audio stream handler, checked under SpecAudio  *)
(***************************************************************************)
\* C38: closing one audio WebSocket removes only the session that connection
\* created: a session registered by another connection, also one for the same
\* call_id, stays registered.
C38_CloseRemovesOwnSession ==
    [][\A k \in Conns :
          (stream[k].pc = "recv" /\ stream'[k].pc = "closed")
              => \A c \in CallIds :
                     active_streams[c] # k => active_streams'[c] = active_streams[c]]_vars

\* C32: whenever a pipeline cycle fails (an error while transcribing, generating
\* or synthesizing), a fixed fallback phrase is synthesized and sent to the
\* caller, instead of nothing.
C32_FallbackOnFailure ==
    lastCycle = "exception" => CycleSends(lastCycle) = "fallback"

(***************************************************************************)
(* Further claims about VoiceAIEngine, checked under FairSpecEngine        *)
(***************************************************************************)
\* C34: every session registered in the engine is eventually removed from
\* active_calls, also when handle_incoming_call is driven from an event loop
\* of its own that is closed as soon as the call returns.
C34_SessionEventuallyRemoved ==
    \A c \in CallIds : EngineRegistered(c) ~> ~EngineRegistered(c)

C39_HistoryOfThisCallOnly ==
    dialog.llm_called =>
        \A i \in 1..Len(dialog.messages) : dialog.messages[i].call = dialog.call

(***************************************************************************)
(* Claims about the locks of the webhook server, checked under SpecLocks   *)
(***************************************************************************)
\* C33: neither call_lock nor answer_lock is held by a handler while its
\* request to the telephony API is in progress: every with block ends before
\* the request is made.
C33_NoLockDuringRequest ==
    \A w \in Workers : Requesting(w) => (call_lock # w /\ answer_lock # w)

\* a request of one handler is in progress while another handler is inside a
\* with block of call_lock or answer_lock
C33_Witness ==
    \E w \in Workers, v \in Workers :
        /\ w # v
        /\ Requesting(w)
        /\ handler[v].inside
        /\ (call_lock = v \/ answer_lock = v)

====
